---------------------------- MODULE Spec2Model ----------------------------
(***************************************************************************)
(* State-machine model of the data-flow core of mlsgpu: the bucket         *)
(* recursion (src/src/bucket.cpp), the blob index encoder and decoder      *)
(* (src/src/splat_set_impl.h), the copy / device worker groups             *)
(* (src/src/workers.cpp) and the splat tree (src/unnamed/part_000).        *)
(*                                                                         *)
(* Each subsystem has its own variables, initial predicate, next-state     *)
(* relation and specification; a subsystem's specification leaves the      *)
(* variables of the others at their idle values.                           *)
(***************************************************************************)
EXTENDS Integers, Sequences, FiniteSets, TLC

VARIABLES
    bkFiles,      \* bucket(): the input files, each a sequence of splats
    bkParams,     \* bucket(): [grid, maxSplats, maxCells, maxSplit]
    bkStack,      \* pending bucketRecurse invocations (top of stack first)
    bkEmitted,    \* sequence of the calls made to params.process
    bkStatus,     \* "run", "done" or "overflow" (call stack exhausted)
    bkState       \* the BucketState of the call that split its cell last, at the end of its scope

VARIABLES
    blIn,         \* addBlob: the blobs passed as curBlob so far
    blPrev,       \* the caller's prevBlob
    blData,       \* blobData: the 32-bit words written
    blRecWords,   \* the number of words addBlob wrote for each blob
    blPhase,      \* "write", "read" once a stream is open, "end" when it is empty
    blRemaining,  \* MyBlobStream::remaining
    blPos,        \* number of words the stream has read
    blCur,        \* MyBlobStream::curBlob
    blOut         \* the blobs the stream has yielded

VARIABLES
    brInput,      \* computeBlobsRange: the finite splats of the range, ascending id
    brRead,       \* number of splats the stream has returned
    brBuffer,     \* buffer / bufferIds of the current pass of the loop
    brThreads,    \* omp_get_num_threads() of the current parallel region
    brPc,         \* per thread: "idle", "compute", "ordered" or "done"
    brThread,     \* per thread: [data, blobs, bbox] (threadBlobData, ...)
    brFile,       \* the words written to `out`
    brNBlobs,     \* bf.nBlobs
    brNSplats,    \* nSplats
    brBbox,       \* bbox
    brPhase,      \* "loop", "parallel" or "closed"
    brLog         \* history: one entry per ordered region executed

VARIABLES
    wkInput,        \* the work items given to the CopyGroup, in order
    wkNext,         \* index of the next work item the copy worker takes
    cpPc,           \* copy worker: position in operator() / flush()
    cpWork,         \* copy worker: the work item of the current operator() call
    cpBufferedItems,\* CopyGroupBase::Worker::bufferedItems
    cpBufferedSplats,\* CopyGroupBase::Worker::bufferedSplats
    cpScan,         \* flush(): index of the next group the scan looks at
    cpBest,         \* flush(): best
    cpSeen,         \* history: the u read for each group in the current scan, -1 if none
    cpOutGroup,     \* flush(): outGroup (0 is NULL)
    cpItem,         \* flush(): the item between get() and push()
    cpNotified,     \* popCondition has been notified while the copy worker waits
    wkPopLocked,    \* the copy worker holds popMutex
    wkPending,      \* batch whose device write has not completed (0: none)
    wkBatches,      \* number of batches flushed so far
    wkRace,         \* the pinned buffer was written while a device write read it
    wkProgress,     \* the progress meter
    dgConfig,       \* per group: [numWorkers, spare] given to the constructor
    dgPool,         \* per group: number of items in itemPool
    dgQueue,        \* per group: the work queue
    dgUnallocated,  \* per group: unallocated_
    dwPc,           \* per device worker: position in the worker loop
    dwItem,         \* per device worker: the item being processed
    dwIdx           \* per device worker: index of the current SubItem

VARIABLES
    mcIn,         \* makeCode: the arguments <<x, y, z>>
    mcOut         \* makeCode: [called, ans, shift]

VARIABLES
    trDims,       \* SplatTree: grid.numVertices(i) per axis
    trSplats,     \* SplatTree::splats
    trEntries,    \* initialize(): entries after stable_sort
    trNumCommands,\* initialize(): numCommands given to allocateCommands
    trCommands,   \* the commands written so far (index 0 first)
    trStart,      \* initialize(): the start vector, indexed by code
    trLevel,      \* command-list loop: level
    trCode,       \* command-list loop: code
    trP,          \* command-list loop: p
    trStatus,     \* "new", "loop", "built", "out_of_range" or "corrupt"
    trLookup      \* the last traversal made on the built tree

VARIABLES
    srRange,      \* a SplatRange object: [scan, start, size]
    srCall        \* the last constructor or append call and its outcome

VARIABLES
    bsConfig,       \* internalBucketSize, bounding spacing, and the grid and bucketSize asked for
    bsStored,       \* the blobs of the blob files, decoded, in internal bucket coordinates
    bsPath,         \* "none", "fast" (MyBlobStream) or "scan" (the base class's stream)
    bsPos,          \* blobs MyBlobStream has yielded
    bsOut          \* the blobs yielded, in order

VARIABLES
    sqOwner,        \* the owner's sequence: for each splat whether it is finite
    sqRanges,       \* the id ranges asked for: [first, second) pairs
    sqCurRange,     \* MySplatStream::curRange, an index, Len + 1 for lastRange
    sqCur,          \* MySplatStream::cur
    sqOut,          \* the ids written to splatIds by all calls so far
    sqLast         \* the last call of read: count, return value, and whether a short return came before

VARIABLES
    rdFiles,        \* owner.files: size in splats and vertex size in bytes of each file
    rdRanges,       \* the id ranges the thread was made for: [first, second) pairs
    rdCur,          \* the iterator cur: [curRange, first]
    rdNext,         \* the iterator next, where the merged read ends
    rdRange,        \* the local variable range
    rdChunk,        \* the merged read: [fileId, start, end]
    rdHandle,       \* handleId, or -1 while there is no handle
    rdPc,           \* "loop", "push", "done" or "failed"
    rdQueue,        \* the items pushed to outQueue, in order
    rdStops,       \* the number of calls of outQueue.stop()
    rdReads,       \* the number of calls of buffer.allocate and readRaw
    rdReadFrom     \* the number of items pushed before the last readRaw

VARIABLES
    msDims,         \* bucketRecurse: dims
    msMaxSplit,     \* params.maxSplit
    msShift,        \* bucketRecurse: microShift, 0 before the loop
    msLevels,       \* bucketRecurse: macroLevels, 0 before the loop
    msPc           \* "split", "micro" (microSize chosen), "done" or "idle"

VARIABLES
    fiFiles,        \* owner.files: size in splats and vertex size in bytes of each file
    fiRanges,       \* the id ranges iterated: [first, second) pairs
    fiMaxSize,      \* maxSize
    fiCur,          \* the iterator: [curRange, first]
    fiYielded,      \* the FileRanges obtained by dereference, in order
    fiPc           \* "iterate", "done" or "idle"

VARIABLES
    bgSplats,       \* the splats of the set: position, radius and whether all values are finite
    bgSpacing,      \* computeBlobs: spacing
    bgBucketSize,   \* computeBlobs: bucketSize
    bgInternal,     \* internalBucketSize, 0 before computeBlobs
    bgNSplats,      \* nSplats
    bgGrid,         \* boundingGrid: [spacing, reference, lower, upper]
    bgFast,         \* the results of fastPath(boundingGrid, k * bucketSize), by k
    bgPc           \* "new", "built", "error" or "idle"

bucketVars == <<bkFiles, bkParams, bkStack, bkEmitted, bkStatus, bkState>>

codeVars == <<mcIn, mcOut>>

treeVars == <<trDims, trSplats, trEntries, trNumCommands, trCommands, trStart, trLevel,
              trCode, trP, trStatus, trLookup>>

splatRangeVars == <<srRange, srCall>>

blobVars == <<blIn, blPrev, blData, blRecWords, blPhase, blRemaining, blPos, blCur, blOut>>

rangeVars == <<brInput, brRead, brBuffer, brThreads, brPc, brThread, brFile, brNBlobs,
               brNSplats, brBbox, brPhase, brLog>>

copyVars == <<wkInput, wkNext, cpPc, cpWork, cpBufferedItems, cpBufferedSplats, cpScan,
              cpBest, cpSeen, cpOutGroup, cpItem, cpNotified, wkPopLocked, wkPending, wkBatches,
              wkRace>>

deviceVars == <<wkProgress, dgConfig, dgPool, dgQueue, dgUnallocated, dwPc, dwItem, dwIdx>>

workerVars == <<copyVars, deviceVars>>

streamVars == <<bsConfig, bsStored, bsPath, bsPos, bsOut>>

sequenceVars == <<sqOwner, sqRanges, sqCurRange, sqCur, sqOut, sqLast>>

readerVars == <<rdFiles, rdRanges, rdCur, rdNext, rdRange, rdChunk, rdHandle, rdPc, rdQueue, rdStops,
                rdReads, rdReadFrom>>

microVars == <<msDims, msMaxSplit, msShift, msLevels, msPc>>

fileIterVars == <<fiFiles, fiRanges, fiMaxSize, fiCur, fiYielded, fiPc>>

boundingVars == <<bgSplats, bgSpacing, bgBucketSize, bgInternal, bgNSplats, bgGrid, bgFast, bgPc>>

vars == <<bucketVars, blobVars, rangeVars, workerVars, codeVars, treeVars, splatRangeVars, streamVars, sequenceVars, readerVars, microVars, fileIterVars, boundingVars>>

\* The variables each subsystem leaves alone.
nonBucketVars == <<blobVars, rangeVars, workerVars, codeVars, treeVars, splatRangeVars, streamVars, sequenceVars, readerVars, microVars, fileIterVars, boundingVars>>

nonBlobVars == <<bucketVars, rangeVars, workerVars, codeVars, treeVars, splatRangeVars, streamVars, sequenceVars, readerVars, microVars, fileIterVars, boundingVars>>

nonRangeVars == <<bucketVars, blobVars, workerVars, codeVars, treeVars, splatRangeVars, streamVars, sequenceVars, readerVars, microVars, fileIterVars, boundingVars>>

nonWorkerVars == <<bucketVars, blobVars, rangeVars, codeVars, treeVars, splatRangeVars, streamVars, sequenceVars, readerVars, microVars, fileIterVars, boundingVars>>

nonCodeVars == <<bucketVars, blobVars, rangeVars, workerVars, treeVars, splatRangeVars, streamVars, sequenceVars, readerVars, microVars, fileIterVars, boundingVars>>

nonTreeVars == <<bucketVars, blobVars, rangeVars, workerVars, codeVars, splatRangeVars, streamVars, sequenceVars, readerVars, microVars, fileIterVars, boundingVars>>

nonSplatRangeVars == <<bucketVars, blobVars, rangeVars, workerVars, codeVars, treeVars, streamVars, sequenceVars, readerVars, microVars, fileIterVars, boundingVars>>

nonStreamVars == <<bucketVars, blobVars, rangeVars, workerVars, codeVars, treeVars, splatRangeVars, sequenceVars, readerVars, microVars, fileIterVars, boundingVars>>

nonSequenceVars == <<bucketVars, blobVars, rangeVars, workerVars, codeVars, treeVars, splatRangeVars, streamVars, readerVars, microVars, fileIterVars, boundingVars>>

nonReaderVars == <<bucketVars, blobVars, rangeVars, workerVars, codeVars, treeVars, splatRangeVars, streamVars, sequenceVars, microVars, fileIterVars, boundingVars>>

nonMicroVars == <<bucketVars, blobVars, rangeVars, workerVars, codeVars, treeVars, splatRangeVars, streamVars, sequenceVars, readerVars, fileIterVars, boundingVars>>

nonFileIterVars == <<bucketVars, blobVars, rangeVars, workerVars, codeVars, treeVars, splatRangeVars, streamVars, sequenceVars, readerVars, microVars, boundingVars>>

nonBoundingVars == <<bucketVars, blobVars, rangeVars, workerVars, codeVars, treeVars, splatRangeVars, streamVars, sequenceVars, readerVars, microVars, fileIterVars>>

(***************************************************************************)
(* Generic helpers.                                                        *)
(***************************************************************************)
Max2(a, b) == IF a >= b THEN a ELSE b

RECURSIVE Pow2(_)
Pow2(n) == IF n <= 0 THEN 1 ELSE 2 * Pow2(n - 1)

RECURSIVE SeqSum(_)
SeqSum(s) == IF s = <<>> THEN 0 ELSE Head(s) + SeqSum(Tail(s))

Axes == 1..3

(***************************************************************************)
(* Bounds of the model.                                                    *)
(***************************************************************************)
\* Largest number of splats in the input of bucket().
MaxBucketInput == 3

\* Depth of the bucketRecurse call stack after which the stack is exhausted.
MaxDepth == 4

\* Width in bits of the model's std::size_t (mulSat saturates at its maximum).
SizeBits == 16

SizeMax == Pow2(SizeBits) - 1

\* Width in bits of the model's SplatRange::size_type.
RangeSizeBits == 4

RangeSizeMax == Pow2(RangeSizeBits) - 1

(***************************************************************************)
(* SplatRange and SplatRangeCounter (bucket.cpp, 38-106).                  *)
(* A range is [scan, start, size]; the empty range has size 0.             *)
(***************************************************************************)
EmptyRange == [scan |-> -1, start |-> -1, size |-> 0]

SplatRangeOne(scan, splat) == [scan |-> scan, start |-> splat, size |-> 1]

\* Mutant of SplatRangeAppend: an id already inside the range is refused.
SplatRangeAppend_Strict(r, scan, splat) ==
    IF r.size = 0
    THEN <<TRUE, [scan |-> scan, start |-> splat, size |-> 1]>>
    ELSE IF r.scan = scan /\ splat = r.start + r.size /\ r.size < RangeSizeMax
         THEN <<TRUE, [r EXCEPT !.size = @ + 1]>>
         ELSE <<FALSE, r>>

\* SplatRange::append: the pair <<ok, range after the call>>.
SplatRangeAppend(r, scan, splat) ==
    IF r.size = 0
    THEN <<TRUE, [scan |-> scan, start |-> splat, size |-> 1]>>
    ELSE IF r.scan = scan /\ splat >= r.start /\ splat - r.start <= r.size
         THEN IF splat - r.start = r.size
              THEN IF r.size = RangeSizeMax
                   THEN <<FALSE, r>>
                   ELSE <<TRUE, [r EXCEPT !.size = @ + 1]>>
              ELSE <<TRUE, r>>
         ELSE <<FALSE, r>>

EmptyCounter == [ranges |-> 0, splats |-> 0, current |-> EmptyRange]

\* Mutant of CounterAppend: every splat is counted as a range of its own.
CounterAppend_NoCoalesce(c, scan, splat) ==
    [ranges |-> c.ranges + 1, splats |-> c.splats + 1, current |-> SplatRangeOne(scan, splat)]

\* SplatRangeCounter::append
CounterAppend(c, scan, splat) ==
    LET a == SplatRangeAppend(c.current, scan, splat)
    IN  IF c.ranges = 0 \/ ~a[1]
        THEN [ranges |-> c.ranges + 1, splats |-> c.splats + 1,
              current |-> SplatRangeOne(scan, splat)]
        ELSE [ranges |-> c.ranges, splats |-> c.splats + 1, current |-> a[2]]

(***************************************************************************)
(* SplatRangeCollector<OutIter>: the range being built and the ranges      *)
(* already written through the output iterator, which started at `first`.  *)
(***************************************************************************)
NewCollector(first) == [current |-> EmptyRange, first |-> first, written |-> <<>>]

CollectorAppend(c, scan, splat) ==
    LET a == SplatRangeAppend(c.current, scan, splat)
    IN  IF a[1]
        THEN [c EXCEPT !.current = a[2]]
        ELSE [c EXCEPT !.written = Append(@, c.current),
                       !.current = SplatRangeOne(scan, splat)]

\* Mutant of CollectorFlush: the range being built is never written out.
CollectorFlush_Keep(c) == c

CollectorFlush(c) ==
    IF c.current.size > 0
    THEN [c EXCEPT !.written = Append(@, c.current), !.current = EmptyRange]
    ELSE c

(***************************************************************************)
(* Grid: integer extents [lo, hi) per axis, spacing one cell and reference *)
(* at the origin.  World coordinates are in quarter cells, so that a splat *)
(* can lie strictly inside one cell.                                       *)
(***************************************************************************)
GridNumCells(g, i) == g[i][2] - g[i][1]

\* World coordinate (quarter cells) of vertex v (relative to the lower extent).
GridGetVertex(g, i, v) == 4 * (g[i][1] + v)

GridSubGrid(g, lo, hi) == [i \in Axes |-> <<g[i][1] + lo[i], g[i][1] + hi[i]>>]

(***************************************************************************)
(* bucket.cpp: arithmetic helpers.                                         *)
(***************************************************************************)
\* Mutant of mulSat: the product wraps around.
mulSat_Wrap(a, b) == (a * b) % (SizeMax + 1)

mulSat(a, b) == IF a = 0 \/ SizeMax \div a >= b THEN a * b ELSE SizeMax

divUp(a, b) == (a + b - 1) \div b

(***************************************************************************)
(* Cell: a cube of side 2^level cells at `base` (relative to the grid).    *)
(***************************************************************************)
Cell(x, y, z, level) == [base |-> <<x, y, z>>, level |-> level]

CellSize(cell) == Pow2(cell.level)

\* Mutant of splatCellIntersect: the signs of the radius swapped, which tests
\* whether the cell contains the influence region.
splatCellIntersect_SignSwap(splat, cell, grid) ==
    \A i \in Axes :
        ~(  splat.pos[i] - splat.radius < GridGetVertex(grid, i, cell.base[i])
         \/ splat.pos[i] + splat.radius >
                GridGetVertex(grid, i, cell.base[i] + CellSize(cell)))

\* Bounding-box test of a splat's influence region against a cell.
splatCellIntersect(splat, cell, grid) ==
    \A i \in Axes :
        ~(  splat.pos[i] + splat.radius < GridGetVertex(grid, i, cell.base[i])
         \/ splat.pos[i] - splat.radius >
                GridGetVertex(grid, i, cell.base[i] + CellSize(cell)))

\* The i-th child visited by forEachCell_r (i in 0..7).
ChildCell(cell, i) ==
    LET half == Pow2(cell.level - 1)
    IN  Cell(cell.base[1] + (IF i % 2 = 1 THEN half ELSE 0),
             cell.base[2] + (IF (i \div 2) % 2 = 1 THEN half ELSE 0),
             cell.base[3] + (IF (i \div 4) % 2 = 1 THEN half ELSE 0),
             cell.level - 1)

CellInDims(cell, dims) == \A i \in Axes : cell.base[i] < dims[i]

\* The cells that have a CellState in BucketState::cellStates.
CellsAtLevel(dims, level) ==
    { Cell(x * Pow2(level), y * Pow2(level), z * Pow2(level), level) :
        x \in 0..(divUp(dims[1], Pow2(level)) - 1),
        y \in 0..(divUp(dims[2], Pow2(level)) - 1),
        z \in 0..(divUp(dims[3], Pow2(level)) - 1) }

AllCells(dims, microShift, macroLevels) ==
    UNION { CellsAtLevel(dims, l) : l \in microShift..(microShift + macroLevels - 1) }

BAD_BLOCK == -1

\* BucketState::BucketState
NewBucketState(params, dims, microShift, macroLevels) ==
    [ params      |-> params,
      dims        |-> dims,
      microShift  |-> microShift,
      macroLevels |-> macroLevels,
      counter     |-> [c \in AllCells(dims, microShift, macroLevels) |-> EmptyCounter],
      blockId     |-> [c \in AllCells(dims, microShift, macroLevels) |-> BAD_BLOCK],
      picked      |-> <<>>,
      pickedOffset |-> <<>>,
      nextOffset  |-> 0,
      childCur    |-> <<>> ]

RootCell(st) == Cell(0, 0, 0, st.microShift + st.macroLevels - 1)

(***************************************************************************)
(* forEachSplat: the splats named by a list of ranges, in order, each as   *)
(* [scan, id, splat].                                                      *)
(***************************************************************************)
RangeIds(r) == [k \in 1..r.size |-> [scan |-> r.scan, id |-> r.start + k - 1]]

RECURSIVE RangesIds(_)
RangesIds(ranges) ==
    IF ranges = <<>> THEN <<>> ELSE RangeIds(Head(ranges)) \o RangesIds(Tail(ranges))

ReadVertex(files, scan, id) == files[scan + 1][id + 1]

forEachSplat(files, ranges) ==
    LET ids == RangesIds(ranges)
    IN  [k \in 1..Len(ids) |->
            [scan |-> ids[k].scan, id |-> ids[k].id,
             splat |-> ReadVertex(files, ids[k].scan, ids[k].id)]]

(***************************************************************************)
(* Histogram pass: CountSplat / CountOneSplat driven by forEachCell_r.     *)
(***************************************************************************)
RECURSIVE CountOneSplat(_, _, _), CountChildren(_, _, _, _)
CountOneSplat(st, cell, s) ==
    IF ~splatCellIntersect(s.splat, cell, st.params.grid)
    THEN st
    ELSE LET st1 == [st EXCEPT !.counter[cell] = CounterAppend(@, s.scan, s.id)]
         IN  IF cell.level > st.microShift /\ cell.level > 0
             THEN CountChildren(st1, cell, s, 0)
             ELSE st1

CountChildren(st, cell, s, i) ==
    IF i = 8
    THEN st
    ELSE LET c == ChildCell(cell, i)
         IN  CountChildren(IF CellInDims(c, st.dims) THEN CountOneSplat(st, c, s) ELSE st,
                           cell, s, i + 1)

RECURSIVE CountSplats(_, _)
CountSplats(st, splats) ==
    IF splats = <<>>
    THEN st
    ELSE CountSplats(CountOneSplat(st, RootCell(st), Head(splats)), Tail(splats))

(***************************************************************************)
(* Pick pass: PickCells driven by forEachCell_r.                           *)
(***************************************************************************)
\* Mutant of PickTest: a cell of exactly maxCells a side is split.
PickTest_Smaller(st, cell) ==
    \/ cell.level = st.microShift
    \/ (  CellSize(cell) < st.params.maxCells
       /\ st.counter[cell].splats <= st.params.maxSplats)

\* The test that makes PickCells::operator() choose a non-empty cell.
PickTest(st, cell) ==
    \/ cell.level = st.microShift
    \/ (  CellSize(cell) <= st.params.maxCells
       /\ st.counter[cell].splats <= st.params.maxSplats)

RECURSIVE PickCells(_, _), PickChildren(_, _, _)
PickCells(st, cell) ==
    IF st.counter[cell].splats = 0
    THEN st
    ELSE IF PickTest(st, cell)
         THEN [st EXCEPT !.blockId[cell] = Len(st.picked),
                         !.picked = Append(@, cell),
                         !.pickedOffset = Append(@, st.nextOffset),
                         !.nextOffset = @ + st.counter[cell].ranges]
         ELSE IF cell.level > 0 THEN PickChildren(st, cell, 0) ELSE st

PickChildren(st, cell, i) ==
    IF i = 8
    THEN st
    ELSE LET c == ChildCell(cell, i)
         IN  PickChildren(IF CellInDims(c, st.dims) THEN PickCells(st, c) ELSE st,
                          cell, i + 1)

(***************************************************************************)
(* Partition pass: BucketSplats / BucketOneSplat driven by forEachCell_r.  *)
(***************************************************************************)
RECURSIVE BucketOneSplat(_, _, _), BucketChildren(_, _, _, _)
BucketOneSplat(st, cell, s) ==
    IF ~splatCellIntersect(s.splat, cell, st.params.grid)
    THEN st
    ELSE IF st.blockId[cell] = BAD_BLOCK
         THEN IF cell.level > 0 THEN BucketChildren(st, cell, s, 0) ELSE st
         ELSE [st EXCEPT !.childCur[st.blockId[cell] + 1] =
                              CollectorAppend(@, s.scan, s.id)]

BucketChildren(st, cell, s, i) ==
    IF i = 8
    THEN st
    ELSE LET c == ChildCell(cell, i)
         IN  BucketChildren(IF CellInDims(c, st.dims) THEN BucketOneSplat(st, c, s) ELSE st,
                            cell, s, i + 1)

RECURSIVE BucketSplats(_, _)
BucketSplats(st, splats) ==
    IF splats = <<>>
    THEN st
    ELSE BucketSplats(BucketOneSplat(st, RootCell(st), Head(splats)), Tail(splats))

(***************************************************************************)
(* bucketRecurse (bucket.cpp, 474-564).  A frame is one invocation:        *)
(* [params with its grid, ranges = [first, last), numSplats, depth].       *)
(***************************************************************************)
FrameDims(f) == [i \in Axes |-> GridNumCells(f.params.grid, i)]

FrameMaxDim(f) == Max2(Max2(FrameDims(f)[1], FrameDims(f)[2]), FrameDims(f)[3])

\* Mutant of BaseCase: either limit suffices.
BaseCase_Or(f) ==
    f.numSplats <= f.params.maxSplats \/ FrameMaxDim(f) <= f.params.maxCells

\* The test of the base case.
BaseCase(f) ==
    f.numSplats <= f.params.maxSplats /\ FrameMaxDim(f) <= f.params.maxCells

MicroBlocks(dims, microSize) ==
    mulSat(mulSat(mulSat(1, divUp(dims[1], microSize)), divUp(dims[2], microSize)),
           divUp(dims[3], microSize))

\* The do-while loop choosing microShift, entered with the shift already tried.
RECURSIVE ChooseMicroShift(_, _, _)
ChooseMicroShift(dims, maxSplit, shift) ==
    IF MicroBlocks(dims, Pow2(shift + 1)) > maxSplit
    THEN ChooseMicroShift(dims, maxSplit, shift + 1)
    ELSE shift + 1

\* The while loop choosing macroLevels.
RECURSIVE ChooseMacroLevels(_, _, _)
ChooseMacroLevels(microSize, maxDim, macroLevels) ==
    IF microSize * Pow2(macroLevels - 1) < maxDim
    THEN ChooseMacroLevels(microSize, maxDim, macroLevels + 1)
    ELSE macroLevels

\* The BucketState at the end of the scope that builds it: histogram, pick,
\* allocation of the collectors, partition and flush.
SplitState(f, files) ==
    LET dims == FrameDims(f)
        microShift == ChooseMicroShift(dims, f.params.maxSplit, 0)
        macroLevels == ChooseMacroLevels(Pow2(microShift), FrameMaxDim(f), 1)
        splats == forEachSplat(files, f.ranges)
        st0 == NewBucketState(f.params, dims, microShift, macroLevels)
        st1 == CountSplats(st0, splats)
        st2 == PickCells(st1, RootCell(st1))
        st3 == [st2 EXCEPT !.pickedOffset = Append(@, st2.nextOffset),
                           !.childCur = [i \in 1..Len(st2.picked) |->
                                             NewCollector(st2.pickedOffset[i])]]
        st4 == BucketSplats(st3, splats)
    IN  [st4 EXCEPT !.childCur = [i \in 1..Len(st4.picked) |-> CollectorFlush(st4.childCur[i])]]

\* childRanges after the partition pass: slot k (from 0) of the flat buffer.
\* A slot nothing wrote to holds a default-constructed range.
ChildRanges(st) ==
    [k \in 0..(st.nextOffset - 1) |->
        IF \E i \in 1..Len(st.picked) :
              /\ k >= st.childCur[i].first
              /\ k < st.childCur[i].first + Len(st.childCur[i].written)
        THEN LET i == CHOOSE j \in 1..Len(st.picked) :
                          /\ k >= st.childCur[j].first
                          /\ k < st.childCur[j].first + Len(st.childCur[j].written)
                              /\ \A j2 \in (j + 1)..Len(st.picked) :
                                    ~(  k >= st.childCur[j2].first
                                     /\ k < st.childCur[j2].first
                                              + Len(st.childCur[j2].written))
             IN  st.childCur[i].written[k - st.childCur[i].first + 1]
        ELSE EmptyRange]

\* The frame of the recursive call for picked cell i (from 1).  `forced` notes
\* a cell that was picked only because it is a microblock.
ChildFrame(f, st, i) ==
    LET cell == st.picked[i]
        size == CellSize(cell)
        buf == ChildRanges(st)
        lo == st.pickedOffset[i]
        hi == st.pickedOffset[i + 1]
    IN  [ params |-> [f.params EXCEPT !.grid =
                          GridSubGrid(f.params.grid, cell.base,
                                      [a \in Axes |-> cell.base[a] + size])],
          ranges |-> [k \in 1..(hi - lo) |-> buf[lo + k - 1]],
          numSplats |-> st.counter[cell].splats,
          forced |-> ~(  size <= f.params.maxCells
                      /\ st.counter[cell].splats <= f.params.maxSplats),
          depth |-> f.depth + 1 ]

ChildFrames(f, st) == [i \in 1..Len(st.picked) |-> ChildFrame(f, st, i)]

\* makeRoot: one range per non-empty file (files are far shorter than the
\* largest range size).
RECURSIVE makeRoot(_, _)
makeRoot(files, i) ==
    IF i > Len(files)
    THEN <<>>
    ELSE (IF Len(files[i]) > 0
          THEN <<[scan |-> i - 1, start |-> 0, size |-> Len(files[i])]>>
          ELSE <<>>) \o makeRoot(files, i + 1)

TotalVertices(files) == SeqSum([i \in 1..Len(files) |-> Len(files[i])])

(***************************************************************************)
(* Inputs of bucket().                                                     *)
(***************************************************************************)
MakeSplat(x, y, z, r) == [pos |-> <<x, y, z>>, radius |-> r]

\* Splats (quarter cells): inside one cell, inside a far cell, across the
\* faces between cells, outside every grid used, and half a cell beyond the
\* upper x face of the second grid.
SplatChoices ==
    { MakeSplat(2, 2, 2, 1), MakeSplat(26, 6, 2, 1), MakeSplat(8, 4, 2, 2),
      MakeSplat(40, 40, 40, 1), MakeSplat(10, 4, 2, 1) }

GridChoices ==
    { << <<0, 8>>, <<0, 2>>, <<0, 1>> >>,
      << <<-1, 2>>, <<0, 2>>, <<0, 2>> >> }

SplatSeqs == UNION { [1..n -> SplatChoices] : n \in 0..MaxBucketInput }

\* One file, or two files with the first splat alone in the first file.
FileLayouts ==
    { <<s>> : s \in SplatSeqs }
    \cup { <<SubSeq(s, 1, 1), SubSeq(s, 2, Len(s))>> : s \in SplatSeqs \ {<<>>} }

\* No call has split its cell yet.
NoBucketState == [picked |-> <<>>]

BucketInit ==
    /\ bkFiles \in FileLayouts
    /\ \E g \in GridChoices, ms \in 1..2, mc \in {1, 2, 4}, mp \in {2, 8} :
          bkParams = [grid |-> g, maxSplats |-> ms, maxCells |-> mc, maxSplit |-> mp]
    \* bucket(): bucketRecurse(root.begin(), root.end(), numSplats, params)
    /\ bkStack = << [params |-> bkParams, ranges |-> makeRoot(bkFiles, 1),
                     numSplats |-> TotalVertices(bkFiles), forced |-> FALSE,
                     depth |-> 1] >>
    /\ bkEmitted = <<>>
    /\ bkStatus = "run"
    /\ bkState = NoBucketState

BucketIdle ==
    /\ bkFiles = <<>>
    /\ bkParams = [grid |-> <<<<0, 1>>, <<0, 1>>, <<0, 1>>>>, maxSplats |-> 1,
                   maxCells |-> 1, maxSplit |-> 2]
    /\ bkStack = <<>>
    /\ bkEmitted = <<>>
    /\ bkStatus = "idle"
    /\ bkState = NoBucketState

\* Base case: params.process(files, numSplats, first, last, grid).
BucketProcess ==
    /\ bkStatus = "run"
    /\ bkStack # <<>>
    /\ BaseCase(Head(bkStack))
    /\ bkEmitted' = Append(bkEmitted,
                           [numSplats |-> Head(bkStack).numSplats,
                            ranges |-> Head(bkStack).ranges,
                            grid |-> Head(bkStack).params.grid])
    /\ bkStack' = Tail(bkStack)
    /\ UNCHANGED <<bkFiles, bkParams, bkStatus, bkState>>
    /\ UNCHANGED nonBucketVars

\* Else branch: the two passes, then one recursive call per picked cell, the
\* first picked cell first.
BucketSplit ==
    /\ bkStatus = "run"
    /\ bkStack # <<>>
    /\ ~BaseCase(Head(bkStack))
    /\ Head(bkStack).depth < MaxDepth
    /\ bkState' = SplitState(Head(bkStack), bkFiles)
    /\ bkStack' = ChildFrames(Head(bkStack), bkState') \o Tail(bkStack)
    /\ UNCHANGED <<bkFiles, bkParams, bkEmitted, bkStatus>>
    /\ UNCHANGED nonBucketVars

\* Else branch with the call stack at its limit: the process dies.
BucketOverflow ==
    /\ bkStatus = "run"
    /\ bkStack # <<>>
    /\ ~BaseCase(Head(bkStack))
    /\ Head(bkStack).depth >= MaxDepth
    /\ bkStatus' = "overflow"
    /\ UNCHANGED <<bkFiles, bkParams, bkStack, bkEmitted, bkState>>
    /\ UNCHANGED nonBucketVars

\* bucket() returns.
BucketReturn ==
    /\ bkStatus = "run"
    /\ bkStack = <<>>
    /\ bkStatus' = "done"
    /\ UNCHANGED <<bkFiles, bkParams, bkStack, bkEmitted, bkState>>
    /\ UNCHANGED nonBucketVars

BucketNext == BucketProcess \/ BucketSplit \/ BucketOverflow \/ BucketReturn

(***************************************************************************)
(* Properties of bucket().                                                 *)
(***************************************************************************)
\* The splats <<scan, id>> named by the ranges of an emitted bucket.
BucketIds(b) == { <<x.scan, x.id>> : x \in { RangesIds(b.ranges)[k] : k \in 1..Len(RangesIds(b.ranges)) } }

AllSplatIds == { <<scan, id>> \in (0..(Len(bkFiles) - 1)) \X (0..(MaxBucketInput + 1)) :
                    id < Len(bkFiles[scan + 1]) }

\* Box-versus-box test of a splat's influence region against a whole grid.
SplatIntersectsGrid(splat, g) ==
    \A i \in Axes :
        /\ splat.pos[i] + splat.radius >= 4 * g[i][1]
        /\ splat.pos[i] - splat.radius <= 4 * g[i][2]

\* C1: every bucket passed to process holds at most maxSplats splats and
\* its grid has at most maxCells cells on every axis (in every state, hence
\* also in every run of bucket() that returns).
C1_BucketsWithinLimits ==
    \A k \in 1..Len(bkEmitted) :
        /\ Cardinality(BucketIds(bkEmitted[k])) <= bkParams.maxSplats
        /\ bkEmitted[k].numSplats <= bkParams.maxSplats
        /\ \A i \in Axes : GridNumCells(bkEmitted[k].grid, i) <= bkParams.maxCells

\* bucket() has returned after splitting its grid into at least two buckets.
C1_Witness ==
    /\ bkStatus = "done"
    /\ Len(bkEmitted) >= 2
    /\ \E k \in 1..Len(bkEmitted) : bkEmitted[k].numSplats = bkParams.maxSplats

\* C2: a splat whose influence box meets the grid of bucket() is named by
\* the ranges of every emitted bucket whose grid its box meets, and once
\* bucket() has returned it is named by at least one emitted bucket.
C2_SplatsReachBuckets ==
    \A id \in AllSplatIds :
        SplatIntersectsGrid(ReadVertex(bkFiles, id[1], id[2]), bkParams.grid) =>
            /\ \A k \in 1..Len(bkEmitted) :
                  SplatIntersectsGrid(ReadVertex(bkFiles, id[1], id[2]), bkEmitted[k].grid)
                      => id \in BucketIds(bkEmitted[k])
            /\ bkStatus = "done" => \E k \in 1..Len(bkEmitted) : id \in BucketIds(bkEmitted[k])

\* bucket() has returned, a bucket came from a recursive call, and some
\* splat is in two buckets while another bucket does not hold it.
C2_Witness ==
    /\ bkStatus = "done"
    /\ \E id \in AllSplatIds, k1, k2, k3 \in 1..Len(bkEmitted) :
          /\ k1 # k2
          /\ SplatIntersectsGrid(ReadVertex(bkFiles, id[1], id[2]), bkParams.grid)
          /\ id \in BucketIds(bkEmitted[k1])
          /\ id \in BucketIds(bkEmitted[k2])
          /\ id \notin BucketIds(bkEmitted[k3])
          /\ bkEmitted[k1].grid # bkParams.grid

\* A recursive call on a microblock of the smallest size the code can choose
\* (two cells a side), picked as a forced leaf with more than maxSplats splats.
OverfullMicroblock(f) ==
    /\ f.forced
    /\ f.numSplats > f.params.maxSplats
    /\ \A i \in Axes : GridNumCells(f.params.grid, i) = 2

\* C3: when a microblock that cannot be reduced further holds more than
\* maxSplats splats, bucket() raises DensityError instead of recursing on it.
C3_DensityErrorRaised ==
    (\E i \in 1..Len(bkStack) : OverfullMicroblock(bkStack[i]))
        => bkStatus = "DensityError"

\* C13: process is never called with a bucket of zero splats, and on an
\* empty splat set it is not called at all.
C13_NoEmptyBucket ==
    /\ \A k \in 1..Len(bkEmitted) :
          bkEmitted[k].numSplats > 0 /\ bkEmitted[k].ranges # <<>>
    /\ TotalVertices(bkFiles) = 0 => bkEmitted = <<>>

\* Range a ends before range b starts, in the order (scan, start).
RangeBefore(a, b) ==
    \/ a.scan < b.scan
    \/ a.scan = b.scan /\ a.start + a.size <= b.start

\* C14: the ranges passed with a bucket are non-empty, pairwise disjoint and
\* in ascending (scan, start) order, and their sizes add up to the splat
\* count passed with them.
C14_RangesOrdered ==
    \A k \in 1..Len(bkEmitted) :
        LET r == bkEmitted[k].ranges
        IN  /\ \A i \in 1..Len(r) : r[i].size > 0
            /\ \A i, j \in 1..Len(r) : i < j => RangeBefore(r[i], r[j])
            /\ SeqSum([i \in 1..Len(r) |-> r[i].size]) = bkEmitted[k].numSplats

\* bucket() has returned and a bucket made by a recursive call holds two
\* ranges of the same file with a gap between them.
C14_Witness ==
    /\ bkStatus = "done"
    /\ \E k \in 1..Len(bkEmitted) :
          /\ bkEmitted[k].grid # bkParams.grid
          /\ Len(bkEmitted[k].ranges) = 2
          /\ bkEmitted[k].ranges[1].scan = bkEmitted[k].ranges[2].scan
          /\ bkEmitted[k].ranges[1].start + bkEmitted[k].ranges[1].size
                 < bkEmitted[k].ranges[2].start

\* Grid g is a non-empty cuboid of cells lying within grid h.
GridWithin(g, h) ==
    \A i \in Axes : h[i][1] <= g[i][1] /\ g[i][1] < g[i][2] /\ g[i][2] <= h[i][2]

\* C15: the grid of every bucket passed to process, and of every recursive
\* call, is a sub-cuboid of the grid given to bucket().
C15_GridsWithinOriginal ==
    /\ \A k \in 1..Len(bkEmitted) : GridWithin(bkEmitted[k].grid, bkParams.grid)
    /\ \A k \in 1..Len(bkStack) : GridWithin(bkStack[k].params.grid, bkParams.grid)

\* The recursive call for picked cell i of frame f is made with the grid
\* and the ranges of f itself.
Repicked(f, child) ==
    /\ child.params.grid = f.params.grid
    /\ child.ranges = f.ranges
    /\ child.numSplats = f.numSplats

\* C31: bucket() terminates: the call stack of bucketRecurse is never
\* exhausted, and no call that fails the base case recurses on a cell with
\* the grid and the splats it was itself called with.
C31_BucketTerminates ==
    /\ bkStatus # "overflow"
    /\ (bkStatus = "run" /\ bkStack # <<>> /\ ~BaseCase(Head(bkStack))) =>
           LET children == ChildFrames(Head(bkStack), SplitState(Head(bkStack), bkFiles))
           IN  \A i \in 1..Len(children) : ~Repicked(Head(bkStack), children[i])

\* The cell one level up that contains cell c.
ParentCell(c) ==
    LET side == Pow2(c.level + 1)
    IN  Cell((c.base[1] \div side) * side, (c.base[2] \div side) * side,
             (c.base[3] \div side) * side, c.level + 1)

\* Cell a is a proper ancestor of cell c in the octree.
IsAncestor(a, c) ==
    /\ a.level > c.level
    /\ \A i \in Axes : a.base[i] <= c.base[i] /\ c.base[i] < a.base[i] + CellSize(a)

\* The condition under which a non-empty cell is to be picked.
ShouldPick(st, c) ==
    \/ c.level = st.microShift
    \/ (CellSize(c) <= st.params.maxCells /\ st.counter[c].splats <= st.params.maxSplats)

\* The pick pass visits cell c: it is the root, or its parent was visited,
\* was not empty and was not picked.
RECURSIVE PickVisits(_, _)
PickVisits(st, c) ==
    \/ c = RootCell(st)
    \/ /\ c.level < RootCell(st).level
       /\ PickVisits(st, ParentCell(c))
       /\ st.counter[ParentCell(c)].splats # 0
       /\ ~ShouldPick(st, ParentCell(c))

PickedSet(st) == { st.picked[i] : i \in 1..Len(st.picked) }

\* The outcome of the pick pass in BucketState st.
PickPassRight(st) ==
    /\ \A c \in DOMAIN st.counter :
           /\ (c \in PickedSet(st)) <=>
                  (PickVisits(st, c) /\ st.counter[c].splats # 0 /\ ShouldPick(st, c))
           /\ (st.blockId[c] # BAD_BLOCK) <=> (c \in PickedSet(st))
           /\ PickVisits(st, c) =>
                  \A a \in DOMAIN st.counter : IsAncestor(a, c) => st.counter[a].splats # 0
    /\ \A i, j \in 1..Len(st.picked) :
           i # j => st.picked[i] # st.picked[j] /\ ~IsAncestor(st.picked[i], st.picked[j])
    /\ \A i \in 1..Len(st.picked) :
           /\ st.blockId[st.picked[i]] = i - 1
           /\ st.pickedOffset[i] =
                  SeqSum([j \in 1..(i - 1) |-> st.counter[st.picked[j]].ranges])
    /\ st.nextOffset = SeqSum([j \in 1..Len(st.picked) |-> st.counter[st.picked[j]].ranges])

\* Some call of bucketRecurse has split its cell.
HasSplit == bkState # NoBucketState

\* C33: in the pick pass a visited cell with splats is picked iff it is at
\* microblock level or its side is at most maxCells and its splat count at
\* most maxSplats; below a cell without splats nothing is visited; no
\* picked cell lies inside another; and picked cell i gets as offset the sum
\* of countRanges over the cells picked before it.
C33_PickPass == HasSplit => PickPassRight(bkState)

\* A call has split its cell with an octree of two levels: the root holds
\* splats and is not picked, one of its children is picked as a microblock
\* after an earlier one, and another child holds no splat and is left out.
C33_Witness ==
    /\ HasSplit
    /\ LET st == bkState
       IN  /\ st.macroLevels >= 2
           /\ RootCell(st) \notin PickedSet(st)
           /\ Len(st.picked) >= 2
           /\ st.pickedOffset[2] > 0
           /\ \E c \in DOMAIN st.counter :
                  PickVisits(st, c) /\ st.counter[c].splats = 0 /\ c # RootCell(st)

\* The splats <<scan, id>> named by a sequence of ranges.
RangesIdSet(ranges) ==
    { <<RangesIds(ranges)[k].scan, RangesIds(ranges)[k].id>> : k \in 1..Len(RangesIds(ranges)) }

\* The outcome of the partition pass in BucketState st for picked cell i,
\* against what the histogram pass counted for the cell.
SlotFilled(st, i) ==
    LET cell == st.picked[i]
        cur == st.childCur[i]
    IN  /\ cur.first = st.pickedOffset[i]
        /\ cur.current = EmptyRange
        /\ Len(cur.written) = st.counter[cell].ranges
        /\ cur.first + Len(cur.written) = st.pickedOffset[i + 1]
        /\ \A k \in 1..Len(cur.written) : cur.written[k].size > 0
        /\ SeqSum([k \in 1..Len(cur.written) |-> cur.written[k].size]) = st.counter[cell].splats
        /\ Cardinality(RangesIdSet(cur.written)) = st.counter[cell].splats
        /\ \A k \in 1..(Len(cur.written) - 1) :
               RangeBefore(cur.written[k], cur.written[k + 1])

\* Every slot of the range buffer of BucketState st is filled by its cell.
SlotsFilled(st) ==
    /\ Len(st.pickedOffset) = Len(st.picked) + 1
    /\ \A i \in 1..Len(st.picked) : SlotFilled(st, i)
    /\ LET childRanges == ChildRanges(st)
       IN  \A k \in 0..(st.nextOffset - 1) : childRanges[k] # EmptyRange

\* C34: after every split, for every picked cell the partition pass writes as many coalesced
\* ranges as the histogram pass counted for it, naming as many splats as
\* were counted, from the cell's offset up to the next cell's offset, so
\* that every slot of the range buffer is written by its own cell.
C34_SlotsExactlyFilled == [][bkState' # bkState => SlotsFilled(bkState')]_vars

\* A call has split its cell into two picked cells or more, one of which
\* received two ranges and one a range of two splats.
C34_Witness ==
    /\ HasSplit
    /\ Len(bkState.picked) >= 2
    /\ \E i \in 1..Len(bkState.picked) : bkState.counter[bkState.picked[i]].ranges = 2
    /\ \E i \in 1..Len(bkState.picked) :
           \E k \in 1..Len(bkState.childCur[i].written) :
               bkState.childCur[i].written[k].size = 2

(***************************************************************************)
(* 32-bit words and 64-bit splat ids.                                      *)
(* A word is [top, low]: bit 31 and bits 0..30.  A splat id is [hi, lo]:   *)
(* its upper and lower 32-bit words.  Blob coordinates (int32) are small   *)
(* integers; the casts between int32 and uint32 are two's complement.      *)
(***************************************************************************)
Max31 == (Pow2(30) - 1) + Pow2(30)

Word(top, low) == [top |-> top, low |-> low]

\* static_cast<uint32_t>(v) of an int32
WordOfInt32(v) == IF v >= 0 THEN Word(0, v) ELSE Word(1, (v + Max31) + 1)

\* static_cast<int32_t>(w) of a uint32
Int32OfWord(w) == IF w.top = 0 THEN w.low ELSE (w.low - Max31) - 1

\* w + n modulo 2^32 for 0 <= n < 2^31: <<carry out, word>>
WordAdd(w, n) ==
    LET wraps == w.low > Max31 - n
        low2 == IF wraps THEN (w.low - (Max31 - n)) - 1 ELSE w.low + n
        top2 == w.top + (IF wraps THEN 1 ELSE 0)
    IN  <<top2 \div 2, Word(top2 % 2, low2)>>

\* a - b - borrow modulo 2^32: <<borrow out, word>>
WordSub(a, b, borrow) ==
    LET l == (a.low - b.low) - borrow
        bl == IF l < 0 THEN 1 ELSE 0
        low2 == IF l < 0 THEN (l + Max31) + 1 ELSE l
        t == (a.top - b.top) - bl
    IN  <<IF t < 0 THEN 1 ELSE 0, Word(IF t < 0 THEN t + 2 ELSE t, low2)>>

SplatId(hi, lo) == [hi |-> hi, lo |-> lo]

\* The id n, for 0 <= n < 2^31.
IdOfNat(n) == SplatId(Word(0, 0), Word(0, n))

\* id + n modulo 2^64, for 0 <= n < 2^31
IdAdd(id, n) ==
    LET l == WordAdd(id.lo, n)
    IN  SplatId(WordAdd(id.hi, l[1])[2], l[2])

\* a - b modulo 2^64
IdSub(a, b) ==
    LET l == WordSub(a.lo, b.lo, 0)
    IN  SplatId(WordSub(a.hi, b.hi, l[1])[2], l[2])

\* id < n as unsigned 64-bit numbers, for 0 <= n < 2^31
IdBelow(id, n) == id.hi = Word(0, 0) /\ id.lo.top = 0 /\ id.lo.low < n

\* a < b as unsigned 64-bit numbers
IdLess(a, b) ==
    LET ka == <<a.hi.top, a.hi.low, a.lo.top, a.lo.low>>
        kb == <<b.hi.top, b.hi.low, b.lo.top, b.lo.low>>
    IN  \E i \in 1..4 : ka[i] < kb[i] /\ \A j \in 1..(i - 1) : ka[j] = kb[j]

\* Bitwise or of two numbers below 2^31.
RECURSIVE BitOr(_, _)
BitOr(a, b) ==
    IF a = 0 THEN b
    ELSE IF b = 0 THEN a
    ELSE 2 * BitOr(a \div 2, b \div 2) + (IF a % 2 = 1 \/ b % 2 = 1 THEN 1 ELSE 0)

WordOr(a, b) == Word(IF a.top = 1 \/ b.top = 1 THEN 1 ELSE 0, BitOr(a.low, b.low))

\* w << n modulo 2^32, for 0 <= n <= 31
WordShl(w, n) ==
    IF n = 0
    THEN w
    ELSE Word((w.low \div Pow2(31 - n)) % 2, (w.low % Pow2(31 - n)) * Pow2(n))

(***************************************************************************)
(* extractUnsigned, extractSigned, insertUnsigned, insertSigned            *)
(* (splat_set_impl.h, 293-329).                                            *)
(***************************************************************************)
\* (value >> lbit) & ((1 << (hbit - lbit)) - 1), as a number
extractUnsigned(value, lbit, hbit) ==
    ((value.low \div Pow2(lbit)) % Pow2(hbit - lbit))
        + (IF hbit = 32 THEN value.top * Pow2(31 - lbit) ELSE 0)

\* Mutant of extractSigned: the field is not sign-extended.
extractSigned_NoSign(value, lbit, hbit) == extractUnsigned(value, lbit, hbit)

\* The field as a signed number (the uint32_t result is added to an int32
\* modulo 2^32, which is signed addition).
extractSigned(value, lbit, hbit) ==
    LET bits == hbit - lbit
        ans == extractUnsigned(value, lbit, hbit)
    IN  IF (ans \div Pow2(bits - 1)) % 2 = 1 THEN ans - Pow2(bits) ELSE ans

\* payload | (value << lbit), value a uint32 given as a word
insertUnsigned(payload, value, lbit, hbit) == WordOr(payload, WordShl(value, lbit))

\* value an int32
insertSigned(payload, value, lbit, hbit) ==
    WordOr(payload,
           WordShl(WordOfInt32(IF value < 0 THEN value + Pow2(hbit - lbit) ELSE value),
                   lbit))

(***************************************************************************)
(* BlobInfo: [firstSplat, lastSplat, lower, upper].                        *)
(***************************************************************************)
BlobInfo(first, last, lower, upper) ==
    [firstSplat |-> first, lastSplat |-> last, lower |-> lower, upper |-> upper]

\* 1U << 19: a differential record holds a splat count below this.
DiffCountLimit == Pow2(19)

\* Mutant of DifferentialLegal: the upper limit of the delta is off by one.
DifferentialLegal_OffByOne(nData, prevBlob, curBlob) ==
    /\ nData # 0
    /\ prevBlob.lastSplat = curBlob.firstSplat
    /\ IdBelow(IdSub(curBlob.lastSplat, curBlob.firstSplat), DiffCountLimit)
    /\ \A i \in Axes :
          ~(  curBlob.upper[i] - curBlob.lower[i] > 1
           \/ curBlob.lower[i] < prevBlob.upper[i] - 4
           \/ curBlob.lower[i] > prevBlob.upper[i] + 4)

\* addBlob: the value of `differential`.  nData is blobData.size().
DifferentialLegal(nData, prevBlob, curBlob) ==
    /\ nData # 0
    /\ prevBlob.lastSplat = curBlob.firstSplat
    /\ IdBelow(IdSub(curBlob.lastSplat, curBlob.firstSplat), DiffCountLimit)
    /\ \A i \in Axes :
          ~(  curBlob.upper[i] - curBlob.lower[i] > 1
           \/ curBlob.lower[i] < prevBlob.upper[i] - 4
           \/ curBlob.lower[i] > prevBlob.upper[i] + 3)

\* addBlob: the payload after the loop has handled axes 0..i-1.
RECURSIVE DiffPayload(_, _, _, _)
DiffPayload(payload, prevBlob, curBlob, i) ==
    IF i = 3
    THEN payload
    ELSE LET d == curBlob.lower[i + 1] - prevBlob.upper[i + 1]
             p1 == insertSigned(payload, d, i * 4, i * 4 + 3)
             sz == WordOfInt32(curBlob.upper[i + 1] - curBlob.lower[i + 1])
             p2 == insertUnsigned(p1, sz, i * 4 + 3, i * 4 + 4)
         IN  DiffPayload(p2, prevBlob, curBlob, i + 1)

\* addBlob: the words pushed onto blobData for a differential record.
DiffRecord(prevBlob, curBlob) ==
    << insertUnsigned(DiffPayload(Word(1, 0), prevBlob, curBlob, 0),
                      IdSub(curBlob.lastSplat, curBlob.firstSplat).lo, 12, 31) >>

\* addBlob: the words pushed onto blobData for a full record.
FullRecord(curBlob) ==
    << curBlob.firstSplat.hi, curBlob.firstSplat.lo,
       curBlob.lastSplat.hi, curBlob.lastSplat.lo,
       WordOfInt32(curBlob.lower[1]), WordOfInt32(curBlob.upper[1]),
       WordOfInt32(curBlob.lower[2]), WordOfInt32(curBlob.upper[2]),
       WordOfInt32(curBlob.lower[3]), WordOfInt32(curBlob.upper[3]) >>

\* FastBlobSet::addBlob: the words appended to a blobData of nData words.
addBlob(nData, prevBlob, curBlob) ==
    IF DifferentialLegal(nData, prevBlob, curBlob)
    THEN DiffRecord(prevBlob, curBlob)
    ELSE FullRecord(curBlob)

(***************************************************************************)
(* MyBlobStream::refill (splat_set_impl.h, 363-395): decode the record at  *)
(* word `pos` (from 1) of `data` given the current blob.                   *)
(***************************************************************************)
IsDifferentialWord(w) == w.top = 1

\* Size in words of the record that starts with word w.
RecordWords(w) == IF IsDifferentialWord(w) THEN 1 ELSE 10

RefillDifferential(cur, data) ==
    LET lower == [i \in Axes |->
                     cur.upper[i] + extractSigned(data, (i - 1) * 4, (i - 1) * 4 + 3)]
        upper == [i \in Axes |->
                     lower[i] + extractUnsigned(data, (i - 1) * 4 + 3, (i - 1) * 4 + 4)]
    IN  BlobInfo(cur.lastSplat, IdAdd(cur.lastSplat, extractUnsigned(data, 12, 31)),
                 lower, upper)

RefillFull(data, buffer) ==
    BlobInfo(SplatId(data, buffer[1]), SplatId(buffer[2], buffer[3]),
             [i \in Axes |-> Int32OfWord(buffer[4 + 2 * (i - 1)])],
             [i \in Axes |-> Int32OfWord(buffer[5 + 2 * (i - 1)])])

RefillBlob(cur, words, pos) ==
    IF IsDifferentialWord(words[pos])
    THEN RefillDifferential(cur, words[pos])
    ELSE RefillFull(words[pos], SubSeq(words, pos + 1, pos + 9))

(***************************************************************************)
(* Blob file round trip: a writer appends blobs with addBlob (prevBlob is  *)
(* the blob it passed last), then a MyBlobStream is constructed over the   *)
(* finished file and advanced until it is empty.                           *)
(***************************************************************************)
MaxBlobs == 3

ZeroVec == [i \in Axes |-> 0]

\* The values an uninitialized BlobInfo may hold.
JunkBlobs ==
    { BlobInfo(IdOfNat(0), IdOfNat(0), ZeroVec, ZeroVec),
      BlobInfo(IdOfNat(7), IdOfNat(9), [i \in Axes |-> -3], [i \in Axes |-> 2]) }

\* Blobs a stream may start with: ids from 0, 9 and one whose low word is
\* all ones; negative and positive bucket coordinates.
FirstBlobs ==
    { BlobInfo(IdOfNat(0), IdOfNat(1), [i \in Axes |-> -2], [i \in Axes |-> -1]),
      BlobInfo(IdOfNat(9), IdOfNat(12), <<-3, 0, 5>>, <<2, 0, 6>>),
      BlobInfo(SplatId(Word(0, 5), Word(1, Max31)),
               IdAdd(SplatId(Word(0, 5), Word(1, Max31)), 1),
               <<-Pow2(20), 1, 0>>, <<-Pow2(20), 1, 0>>) }

\* A step from one blob to the next: per-axis offset of lower from the
\* previous upper, per-axis size, gap between the id ranges, splat count.
BlobMove(d, s, gap, n) == [d |-> d, s |-> s, gap |-> gap, n |-> n]

Uniform(v) == [i \in Axes |-> v]

OnAxis(a, v) == [i \in Axes |-> IF i = a THEN v ELSE 0]

BlobMoves ==
    { BlobMove(Uniform(d), Uniform(s), 0, 1) : d \in {-5, -4, 3, 4}, s \in {0, 1, 2} }
    \cup { BlobMove(OnAxis(a, d), ZeroVec, 0, 1) : a \in Axes, d \in {-5, 4} }
    \cup { BlobMove(ZeroVec, OnAxis(a, 2), 0, 1) : a \in Axes }
    \cup { BlobMove(OnAxis(1, 1), ZeroVec, 0, n) : n \in {DiffCountLimit - 1, DiffCountLimit} }
    \cup { BlobMove(OnAxis(1, 1), ZeroVec, 1, 1) }

ApplyMove(prevBlob, m) ==
    LET first == IdAdd(prevBlob.lastSplat, m.gap)
        lower == [i \in Axes |-> prevBlob.upper[i] + m.d[i]]
    IN  BlobInfo(first, IdAdd(first, m.n), lower, [i \in Axes |-> lower[i] + m.s[i]])

NextBlobs ==
    IF blIn = <<>> THEN FirstBlobs ELSE { ApplyMove(blPrev, m) : m \in BlobMoves }

BlobInit ==
    /\ blIn = <<>>
    /\ blPrev \in JunkBlobs
    /\ blData = <<>>
    /\ blRecWords = <<>>
    /\ blPhase = "write"
    /\ blRemaining = 0
    /\ blPos = 0
    /\ blCur \in JunkBlobs
    /\ blOut = <<>>

BlobIdle ==
    /\ blIn = <<>>
    /\ blPrev = BlobInfo(IdOfNat(0), IdOfNat(0), ZeroVec, ZeroVec)
    /\ blData = <<>>
    /\ blRecWords = <<>>
    /\ blPhase = "idle"
    /\ blRemaining = 0
    /\ blPos = 0
    /\ blCur = BlobInfo(IdOfNat(0), IdOfNat(0), ZeroVec, ZeroVec)
    /\ blOut = <<>>

\* The writer's step: addBlob(blobData, prevBlob, curBlob); prevBlob = curBlob.
BlobAdd ==
    /\ blPhase = "write"
    /\ Len(blIn) < MaxBlobs
    /\ \E cur \in NextBlobs :
          LET rec == addBlob(Len(blData), blPrev, cur)
          IN  /\ blData' = blData \o rec
              /\ blRecWords' = Append(blRecWords, Len(rec))
              /\ blIn' = Append(blIn, cur)
              /\ blPrev' = cur
    /\ UNCHANGED <<blPhase, blRemaining, blPos, blCur, blOut>>
    /\ UNCHANGED nonBlobVars

\* refill() with `remaining` records left in the open file: read one record,
\* or mark the stream empty (firstSplat = 1, lastSplat = 0).
Refill(remaining) ==
    IF remaining = 0
    THEN /\ blPhase' = "end"
         /\ blCur' = [blCur EXCEPT !.firstSplat = IdOfNat(1), !.lastSplat = IdOfNat(0)]
         /\ blRemaining' = 0
         /\ UNCHANGED <<blPos, blOut>>
    ELSE LET blob == RefillBlob(blCur, blData, blPos + 1)
         IN  /\ blPhase' = "read"
             /\ blCur' = blob
             /\ blOut' = Append(blOut, blob)
             /\ blPos' = blPos + RecordWords(blData[blPos + 1])
             /\ blRemaining' = remaining - 1

\* MyBlobStream constructor over the finished file: remaining = nBlobs of
\* the file, then the first refill().
BlobOpen ==
    /\ blPhase = "write"
    /\ Refill(Len(blIn))
    /\ UNCHANGED <<blIn, blPrev, blData, blRecWords>>
    /\ UNCHANGED nonBlobVars

\* MyBlobStream::operator++ on a non-empty stream.
BlobAdvance ==
    /\ blPhase = "read"
    /\ Refill(blRemaining)
    /\ UNCHANGED <<blIn, blPrev, blData, blRecWords>>
    /\ UNCHANGED nonBlobVars

BlobNext == BlobAdd \/ BlobOpen \/ BlobAdvance

\* C4: the blobs a stream yields from a file written by successive addBlob
\* calls are the blobs that were added, in order and field for field, and
\* when the stream is empty it has yielded all of them.
C4_RoundTrip ==
    /\ blPhase \in {"read", "end"} =>
          /\ Len(blOut) <= Len(blIn)
          /\ blOut = SubSeq(blIn, 1, Len(blOut))
    /\ blPhase = "end" => blOut = blIn /\ blPos = Len(blData)

\* A drained stream whose file held a negative coordinate and differential
\* records with lower - prev.upper = -4 and = +3.
C4_Witness ==
    /\ blPhase = "end"
    /\ Len(blOut) >= 3
    /\ \E k \in 1..Len(blIn) : \E i \in Axes : blIn[k].lower[i] < 0
    /\ \E k \in 2..Len(blIn) :
          blRecWords[k] = 1 /\ \E i \in Axes : blIn[k].lower[i] - blIn[k - 1].upper[i] = -4
    /\ \E k \in 2..Len(blIn) :
          blRecWords[k] = 1 /\ \E i \in Axes : blIn[k].lower[i] - blIn[k - 1].upper[i] = 3

\* The legality conditions for blob k of the file, as integers.
DifferentialExpected(k) ==
    /\ k > 1
    /\ blIn[k].firstSplat = blIn[k - 1].lastSplat
    /\ IdBelow(IdSub(blIn[k].lastSplat, blIn[k].firstSplat), Pow2(19))
    /\ \A i \in Axes :
          /\ blIn[k].upper[i] - blIn[k].lower[i] \in {0, 1}
          /\ blIn[k].lower[i] - blIn[k - 1].upper[i] \in -4..3

\* C5: addBlob writes one word with bit 31 set exactly when a previous
\* record exists, the id ranges abut, the count is below 2^19, every size
\* is 0 or 1 and every offset is in -4..3; otherwise it writes ten words.
C5_DifferentialIff ==
    \A k \in 1..Len(blIn) :
        LET start == SeqSum(SubSeq(blRecWords, 1, k - 1)) + 1
        IN  IF DifferentialExpected(k)
            THEN blRecWords[k] = 1 /\ blData[start].top = 1
            ELSE blRecWords[k] = 10 /\ blData[start].top = 0

\* A file with a differential record at offset -4 and size 1 on every axis
\* and a full record forced by offset -5.
C5_Witness ==
    /\ \E k \in 2..Len(blIn) :
          /\ blRecWords[k] = 1
          /\ \A i \in Axes : /\ blIn[k].lower[i] - blIn[k - 1].upper[i] = -4
                             /\ blIn[k].upper[i] - blIn[k].lower[i] = 1
    /\ \E k \in 2..Len(blIn) :
          /\ blRecWords[k] = 10
          /\ \E i \in Axes : blIn[k].lower[i] - blIn[k - 1].upper[i] = -5

(***************************************************************************)
(* computeBlobsRange (splat_set_impl.h, 637-768): the splats of the range  *)
(* are read a buffer at a time; each buffer is cut into one contiguous     *)
(* slice per OpenMP thread, each thread encodes its slice on its own and   *)
(* appends it to the file inside the ordered region.                       *)
(***************************************************************************)
MaxRangeSplats == 4

\* Stands for BUFFER_SIZE (64 * 1024 splats).
MaxBufferSplats == 2

MaxThreads == 3

\* Width of a bucket in the units of the splat positions (spacing * bucketSize).
BucketWidth == 4

Threads == 0..(MaxThreads - 1)

RangeSplat(id, position, radius) == [id |-> id, position |-> position, radius |-> radius]

\* SplatToBuckets::operator(): the buckets the splat's bounding box meets.
toBucketsLower(splat) == [i \in Axes |-> (splat.position[i] - splat.radius) \div BucketWidth]

toBucketsUpper(splat) == [i \in Axes |-> (splat.position[i] + splat.radius) \div BucketWidth]

\* detail::Bbox: `has` is false while the box is still (+inf, -inf).
EmptyBbox == [has |-> FALSE, bboxMin |-> ZeroVec, bboxMax |-> ZeroVec]

Min2(a, b) == IF a < b THEN a ELSE b

\* Bbox::operator+=(const Bbox &)
BboxAddBbox(a, b) ==
    IF ~b.has THEN a
    ELSE IF ~a.has THEN b
    ELSE [has |-> TRUE,
          bboxMin |-> [j \in Axes |-> Min2(a.bboxMin[j], b.bboxMin[j])],
          bboxMax |-> [j \in Axes |-> Max2(a.bboxMax[j], b.bboxMax[j])]]

\* Bbox::operator+=(const Splat &)
BboxAddSplat(a, splat) ==
    BboxAddBbox(a, [has |-> TRUE,
                    bboxMin |-> [j \in Axes |-> splat.position[j] - splat.radius],
                    bboxMax |-> [j \in Axes |-> splat.position[j] + splat.radius]])

\* The value of a BlobInfo that has not been assigned.
UnsetBlob == BlobInfo(IdOfNat(0), IdOfNat(0), ZeroVec, ZeroVec)

\* The thread-local state at the top of the loop over the slice.
NewThreadState ==
    [data |-> <<>>, blobs |-> 0, bbox |-> EmptyBbox, haveCurBlob |-> FALSE,
     curBlob |-> UnsetBlob, prevBlob |-> UnsetBlob]

\* Mutant of SliceStep: a splat never extends the current blob.
SliceStep_NoCoalesce(st, splat) ==
    LET first == IdOfNat(splat.id)
        blob == BlobInfo(first, IdAdd(first, 1), toBucketsLower(splat), toBucketsUpper(splat))
        st1 == [st EXCEPT !.bbox = BboxAddSplat(st.bbox, splat)]
    IN  IF ~st.haveCurBlob
        THEN [st1 EXCEPT !.curBlob = blob, !.haveCurBlob = TRUE]
        ELSE [st1 EXCEPT !.data = st.data \o addBlob(Len(st.data), st.prevBlob, st.curBlob),
                         !.blobs = st.blobs + 1,
                         !.prevBlob = st.curBlob,
                         !.curBlob = blob]

\* One pass of the loop over the slice (693-718) for buffer[i].
SliceStep(st, splat) ==
    LET first == IdOfNat(splat.id)
        blob == BlobInfo(first, IdAdd(first, 1), toBucketsLower(splat), toBucketsUpper(splat))
        st1 == [st EXCEPT !.bbox = BboxAddSplat(st.bbox, splat)]
    IN  IF ~st.haveCurBlob
        THEN [st1 EXCEPT !.curBlob = blob, !.haveCurBlob = TRUE]
        ELSE IF /\ st.curBlob.lower = blob.lower
                /\ st.curBlob.upper = blob.upper
                /\ st.curBlob.lastSplat = blob.firstSplat
        THEN [st1 EXCEPT !.curBlob.lastSplat = IdAdd(st.curBlob.lastSplat, 1)]
        ELSE [st1 EXCEPT !.data = st.data \o addBlob(Len(st.data), st.prevBlob, st.curBlob),
                         !.blobs = st.blobs + 1,
                         !.prevBlob = st.curBlob,
                         !.curBlob = blob]

RECURSIVE SliceLoop(_, _, _, _)
SliceLoop(buffer, i, last, st) ==
    IF i >= last THEN st ELSE SliceLoop(buffer, i + 1, last, SliceStep(st, buffer[i + 1]))

SliceFirst(tid, nBuffer, nThreads) == (tid * nBuffer) \div nThreads

SliceLast(tid, nBuffer, nThreads) == ((tid + 1) * nBuffer) \div nThreads

\* The body of the omp for loop before the ordered region (682-723).
ThreadSlice(buffer, tid, nThreads) ==
    LET st == SliceLoop(buffer, SliceFirst(tid, Len(buffer), nThreads),
                        SliceLast(tid, Len(buffer), nThreads), NewThreadState)
    IN  IF st.haveCurBlob
        THEN [data |-> st.data \o addBlob(Len(st.data), st.prevBlob, st.curBlob),
              blobs |-> st.blobs + 1, bbox |-> st.bbox]
        ELSE [data |-> st.data, blobs |-> st.blobs, bbox |-> st.bbox]

IdleThread == [data |-> <<>>, blobs |-> 0, bbox |-> EmptyBbox]

\* The splats a range may hold: ids ascend, an id is skipped where the file
\* holds a non-finite splat; positions fall in buckets -1 and 0.
RangeSplatKinds ==
    { [gap |-> 1, position |-> <<1, 1, 1>>, radius |-> 1],
      [gap |-> 1, position |-> <<-3, 1, 1>>, radius |-> 1],
      [gap |-> 2, position |-> <<1, 1, 1>>, radius |-> 1] }

RECURSIVE RangeInputs(_)
RangeInputs(n) ==
    IF n = 0
    THEN {<<>>}
    ELSE LET shorter == RangeInputs(n - 1)
         IN  shorter \cup
             { Append(s, RangeSplat((IF s = <<>> THEN -1 ELSE s[Len(s)].id) + k.gap,
                                    k.position, k.radius)) :
                   s \in { t \in shorter : Len(t) = n - 1 }, k \in RangeSplatKinds }

RangeInit ==
    /\ brInput \in RangeInputs(MaxRangeSplats)
    /\ brRead = 0
    /\ brBuffer = <<>>
    /\ brThreads = 0
    /\ brPc = [t \in Threads |-> "idle"]
    /\ brThread = [t \in Threads |-> IdleThread]
    /\ brFile = <<>>
    /\ brNBlobs = 0
    /\ brNSplats = 0
    /\ brBbox = EmptyBbox
    /\ brPhase = "loop"
    /\ brLog = <<>>

RangeIdle ==
    /\ brInput = <<>>
    /\ brRead = 0
    /\ brBuffer = <<>>
    /\ brThreads = 0
    /\ brPc = [t \in Threads |-> "idle"]
    /\ brThread = [t \in Threads |-> IdleThread]
    /\ brFile = <<>>
    /\ brNBlobs = 0
    /\ brNSplats = 0
    /\ brBbox = EmptyBbox
    /\ brPhase = "idle"
    /\ brLog = <<>>

\* splats->read returns nBuffer > 0 splats and a team of nThreads threads
\* enters the parallel region.
RangeRead ==
    /\ brPhase = "loop"
    /\ brRead < Len(brInput)
    /\ LET nBuffer == Min2(MaxBufferSplats, Len(brInput) - brRead)
       IN  /\ brBuffer' = SubSeq(brInput, brRead + 1, brRead + nBuffer)
           /\ brRead' = brRead + nBuffer
    /\ \E n \in 1..MaxThreads :
          /\ brThreads' = n
          /\ brPc' = [t \in Threads |-> IF t < n THEN "compute" ELSE "idle"]
    /\ brPhase' = "parallel"
    /\ UNCHANGED <<brInput, brThread, brFile, brNBlobs, brNSplats, brBbox, brLog>>
    /\ UNCHANGED nonRangeVars

\* Thread tid encodes its slice into its own threadBlobData.
RangeCompute(tid) ==
    /\ brPhase = "parallel"
    /\ brPc[tid] = "compute"
    /\ brThread' = [brThread EXCEPT ![tid] = ThreadSlice(brBuffer, tid, brThreads)]
    /\ brPc' = [brPc EXCEPT ![tid] = "ordered"]
    /\ UNCHANGED <<brInput, brRead, brBuffer, brThreads, brFile, brNBlobs, brNSplats,
                   brBbox, brPhase, brLog>>
    /\ UNCHANGED nonRangeVars

\* Mutant of OrderedTurn: the ordered region is entered in any order.
OrderedTurn_Any(tid) == TRUE

\* omp ordered: iteration tid enters once every earlier iteration has left.
OrderedTurn(tid) == \A u \in Threads : u < tid => brPc[u] = "done"

\* The ordered region (728-735).
RangeWrite(tid) ==
    /\ brPhase = "parallel"
    /\ brPc[tid] = "ordered"
    /\ OrderedTurn(tid)
    /\ brBbox' = BboxAddBbox(brBbox, brThread[tid].bbox)
    /\ brNBlobs' = brNBlobs + brThread[tid].blobs
    /\ brFile' = brFile \o brThread[tid].data
    /\ brPc' = [brPc EXCEPT ![tid] = "done"]
    /\ brLog' = Append(brLog, [first |-> brRead - Len(brBuffer), nBuffer |-> Len(brBuffer),
                               tid |-> tid, nThreads |-> brThreads,
                               words |-> Len(brThread[tid].data)])
    /\ UNCHANGED <<brInput, brRead, brBuffer, brThreads, brThread, brNSplats, brPhase>>
    /\ UNCHANGED nonRangeVars

\* The end of the parallel region: nSplats += nBuffer, back to the read.
RangeJoin ==
    /\ brPhase = "parallel"
    /\ \A t \in Threads : brPc[t] \in {"done", "idle"}
    /\ brNSplats' = brNSplats + Len(brBuffer)
    /\ brPc' = [t \in Threads |-> "idle"]
    /\ brThread' = [t \in Threads |-> IdleThread]
    /\ brThreads' = 0
    /\ brPhase' = "loop"
    /\ UNCHANGED <<brInput, brRead, brBuffer, brFile, brNBlobs, brBbox, brLog>>
    /\ UNCHANGED nonRangeVars

\* splats->read returns 0: break, out.close().
RangeClose ==
    /\ brPhase = "loop"
    /\ brRead = Len(brInput)
    /\ brPhase' = "closed"
    /\ UNCHANGED <<brInput, brRead, brBuffer, brThreads, brPc, brThread, brFile, brNBlobs,
                   brNSplats, brBbox, brLog>>
    /\ UNCHANGED nonRangeVars

RangeNext ==
    \/ RangeRead
    \/ \E tid \in Threads : RangeCompute(tid)
    \/ \E tid \in Threads : RangeWrite(tid)
    \/ RangeJoin
    \/ RangeClose

\* The blobs a reader that follows the bit-31 tag finds in `words` from
\* position pos on, after blob cur.
RECURSIVE DecodeWords(_, _, _)
DecodeWords(words, pos, cur) ==
    IF pos > Len(words) \/ pos + RecordWords(words[pos]) - 1 > Len(words)
    THEN <<>>
    ELSE LET blob == RefillBlob(cur, words, pos)
         IN  <<blob>> \o DecodeWords(words, pos + RecordWords(words[pos]), blob)

\* The slice a log entry stands for, encoded from the input alone.
LogSlice(e) ==
    ThreadSlice(SubSeq(brInput, e.first + 1, e.first + e.nBuffer), e.tid, e.nThreads)

RECURSIVE LogWords(_, _)
LogWords(log, k) ==
    IF k > Len(log) THEN <<>> ELSE LogSlice(log[k]).data \o LogWords(log, k + 1)

RECURSIVE LogBlobs(_, _)
LogBlobs(log, k) ==
    IF k > Len(log) THEN 0 ELSE LogSlice(log[k]).blobs + LogBlobs(log, k + 1)

\* C6: the file is the concatenation of the thread slices, buffer after
\* buffer and within a buffer in ascending thread index with no slice
\* missing; the blobs decoded from it have ascending, non-overlapping id
\* ranges; and bf.nBlobs is the number of records in the file.
C6_OrderedSlices ==
    /\ \A i, j \in 1..Len(brLog) :
          i < j => \/ brLog[i].first < brLog[j].first
                   \/ brLog[i].first = brLog[j].first /\ brLog[i].tid < brLog[j].tid
    /\ \A i \in 1..Len(brLog) : \A u \in 0..(brLog[i].tid - 1) :
          \E j \in 1..(i - 1) : brLog[j].first = brLog[i].first /\ brLog[j].tid = u
    /\ brPhase \in {"loop", "closed"} =>
          /\ \A i \in 1..Len(brLog) : \A u \in (brLog[i].tid + 1)..(brLog[i].nThreads - 1) :
                \E j \in (i + 1)..Len(brLog) :
                    brLog[j].first = brLog[i].first /\ brLog[j].tid = u
          /\ \A f \in 0..(brRead - 1) :
                f % MaxBufferSplats = 0 => \E i \in 1..Len(brLog) : brLog[i].first = f
    /\ brFile = LogWords(brLog, 1)
    /\ LET decoded == DecodeWords(brFile, 1, UnsetBlob)
       IN  /\ Len(decoded) = brNBlobs
           /\ brNBlobs = LogBlobs(brLog, 1)
           /\ \A k \in 1..Len(decoded) :
                 IdLess(decoded[k].firstSplat, decoded[k].lastSplat)
           /\ \A k \in 1..(Len(decoded) - 1) :
                 ~IdLess(decoded[k + 1].firstSplat, decoded[k].lastSplat)

\* A finished file of two buffers, one of them encoded by several threads
\* of which two wrote a non-empty slice.
C6_Witness ==
    /\ brPhase = "closed"
    /\ \E i, j \in 1..Len(brLog) : brLog[i].first # brLog[j].first
    /\ \E i, j \in 1..Len(brLog) :
          /\ brLog[i].first = brLog[j].first
          /\ brLog[i].tid < brLog[j].tid
          /\ brLog[i].words > 0
          /\ brLog[j].words > 0

\* Blobs a and b, consecutive in the file, could have been one blob.
Mergeable(a, b) ==
    a.lastSplat = b.firstSplat /\ a.lower = b.lower /\ a.upper = b.upper

\* C24 as stated: no two consecutive blobs of the file have contiguous ids
\* and identical boxes, whatever the number of threads and wherever the
\* buffer boundaries fall.
C24_BlobsMaximal ==
    LET decoded == DecodeWords(brFile, 1, UnsetBlob)
    IN  \A k \in 1..(Len(decoded) - 1) : ~Mergeable(decoded[k], decoded[k + 1])

\* The ids of the splats that are first in a non-empty thread slice.
SliceStartIds ==
    { IdOfNat(brInput[brLog[j].first
                      + SliceFirst(brLog[j].tid, brLog[j].nBuffer, brLog[j].nThreads) + 1].id) :
          j \in { i \in 1..Len(brLog) : brLog[i].words > 0 } }

\* C24, amended: two consecutive blobs of the file have contiguous ids and
\* identical boxes only where the second begins the slice of a thread,
\* which is where a buffer or a thread's share of a buffer begins; inside
\* a slice every blob is a maximal run.
C24_BlobsMaximalInSlice ==
    LET decoded == DecodeWords(brFile, 1, UnsetBlob)
    IN  \A k \in 1..(Len(decoded) - 1) :
            Mergeable(decoded[k], decoded[k + 1])
                => decoded[k + 1].firstSplat \in SliceStartIds

\* A finished file with a blob of two splats coalesced inside a slice and
\* a run that is cut where a later slice starts.
C24_Witness ==
    LET decoded == DecodeWords(brFile, 1, UnsetBlob)
    IN  /\ brPhase = "closed"
        /\ \E k \in 1..Len(decoded) :
               decoded[k].lastSplat = IdAdd(decoded[k].firstSplat, 2)
        /\ \E k \in 1..(Len(decoded) - 1) : Mergeable(decoded[k], decoded[k + 1])

(***************************************************************************)
(* CopyGroup and DeviceWorkerGroup (workers.cpp).  One copy worker batches *)
(* work items in the pinned buffer and flushes each batch to a device      *)
(* group; the workers of a device group process the SubItems of a batch    *)
(* one by one.  The worker loop of the WorkerGroup framework (pop from the *)
(* work queue, operator(), freeItem) is not part of workers.cpp.           *)
(***************************************************************************)
MaxWork == 4

\* maxBucketSplats of every device group, hence maxDeviceItemSplats.
MaxItemSplats == 2

\* CopyGroup::outGroups
Groups == 1..2

NumGroups == Cardinality(Groups)

\* The constructor arguments numWorkers and spare of the groups: the first
\* group has one or two workers or a spare item, the second one worker.
GroupConfig(numWorkers, spare) == [numWorkers |-> numWorkers, spare |-> spare]

GroupConfigs ==
    { [g \in Groups |-> IF g = 1 THEN c ELSE GroupConfig(1, 0)] :
          c \in {GroupConfig(1, 0), GroupConfig(2, 0), GroupConfig(1, 1)} }

\* items = numWorkers + spare
GroupItems(config) == config.numWorkers + config.spare

\* The initial value of unallocated_: maxItemSplats * items.
GroupTotal(config) == MaxItemSplats * GroupItems(config)

\* Worker w of group g is <<g, w>>.
DeviceWorkers == Groups \X (1..2)

\* std::size_t arithmetic.
SizeTAdd(a, b) == (a + b) % (SizeMax + 1)

SizeTSub(a, b) == ((a - b) + (SizeMax + 1)) % (SizeMax + 1)

\* No group has been read in the current scan.
NoneSeen == [g \in Groups |-> -1]

NoWork == [chunkId |-> -1, grid |-> <<>>, splats |-> <<>>]

NoItem == [batch |-> 0, subItems |-> <<>>]

\* A CopyGroup work item: chunk, bucket grid extents, splat positions.
CopyWork(chunkId, grid, splats) == [chunkId |-> chunkId, grid |-> grid, splats |-> splats]

\* A bucket of chunk 0 with one splat and a bucket of chunk 1 with two, the
\* second of them on the upper face of the bucket's grid.
WorkKinds ==
    { CopyWork(0, <<<<0, 2>>, <<0, 2>>, <<0, 2>>>>, << <<1, 1, 1>> >>),
      CopyWork(1, <<<<2, 4>>, <<0, 2>>, <<0, 2>>>>, << <<2, 1, 1>>, <<4, 1, 1>> >>) }

RECURSIVE WorkInputs(_)
WorkInputs(n) ==
    IF n = 0
    THEN {<<>>}
    ELSE LET shorter == WorkInputs(n - 1)
         IN  shorter \cup { Append(s, k) : s \in { t \in shorter : Len(t) = n - 1 },
                                           k \in { w \in WorkKinds : Len(w.splats) <= MaxItemSplats } }

\* operator(): the loop that counts the splats inside the half-open extents.
RECURSIVE CountInside(_, _, _)
CountInside(splats, grid, i) ==
    IF i > Len(splats)
    THEN 0
    ELSE (IF \A j \in Axes : splats[i][j] >= grid[j][1] /\ splats[i][j] < grid[j][2]
          THEN 1 ELSE 0) + CountInside(splats, grid, i + 1)

SubItem(chunkId, grid, numSplats, firstSplat, progressSplats) ==
    [chunkId |-> chunkId, grid |-> grid, numSplats |-> numSplats,
     firstSplat |-> firstSplat, progressSplats |-> progressSplats]

WorkersInit ==
    /\ wkInput \in WorkInputs(MaxWork)
    /\ wkNext = 1
    /\ cpPc = "idle"
    /\ cpWork = NoWork
    /\ cpBufferedItems = <<>>
    /\ cpBufferedSplats = 0
    /\ cpScan = 1
    /\ cpBest = 0
    /\ cpSeen = NoneSeen
    /\ cpOutGroup = 0
    /\ cpItem = NoItem
    /\ cpNotified = FALSE
    /\ wkPopLocked = FALSE
    /\ wkPending = 0
    /\ wkBatches = 0
    /\ wkRace = FALSE
    /\ wkProgress = 0
    /\ dgConfig \in GroupConfigs
    /\ dgPool = [g \in Groups |-> GroupItems(dgConfig[g])]
    /\ dgQueue = [g \in Groups |-> <<>>]
    /\ dgUnallocated = [g \in Groups |-> GroupTotal(dgConfig[g])]
    /\ dwPc = [d \in DeviceWorkers |-> IF d[2] <= dgConfig[d[1]].numWorkers THEN "idle" ELSE "off"]
    /\ dwItem = [d \in DeviceWorkers |-> NoItem]
    /\ dwIdx = [d \in DeviceWorkers |-> 0]

WorkersIdle ==
    /\ wkInput = <<>>
    /\ wkNext = 1
    /\ cpPc = "off"
    /\ cpWork = NoWork
    /\ cpBufferedItems = <<>>
    /\ cpBufferedSplats = 0
    /\ cpScan = 1
    /\ cpBest = 0
    /\ cpSeen = NoneSeen
    /\ cpOutGroup = 0
    /\ cpItem = NoItem
    /\ cpNotified = FALSE
    /\ wkPopLocked = FALSE
    /\ wkPending = 0
    /\ wkBatches = 0
    /\ wkRace = FALSE
    /\ wkProgress = 0
    /\ dgConfig = [g \in Groups |-> GroupConfig(1, 0)]
    /\ dgPool = [g \in Groups |-> 1]
    /\ dgQueue = [g \in Groups |-> <<>>]
    /\ dgUnallocated = [g \in Groups |-> MaxItemSplats]
    /\ dwPc = [d \in DeviceWorkers |-> "off"]
    /\ dwItem = [d \in DeviceWorkers |-> NoItem]
    /\ dwIdx = [d \in DeviceWorkers |-> 0]

\* Mutant of Overflows: the pinned buffer is taken to hold any work item.
Overflows_Never(bufferedSplats, numSplats) == FALSE

\* operator(): bufferedSplats + work.numSplats > owner.maxDeviceItemSplats
Overflows(bufferedSplats, numSplats) == bufferedSplats + numSplats > MaxItemSplats

\* CopyGroupBase::Worker::operator() up to the call of flush(): the test
\* bufferedSplats + work.numSplats > maxDeviceItemSplats, and in flush() the
\* early return on an empty bufferedItems.
CopyBegin ==
    /\ cpPc = "idle"
    /\ wkNext <= Len(wkInput)
    /\ cpWork' = wkInput[wkNext]
    /\ wkNext' = wkNext + 1
    /\ cpPc' = IF /\ Overflows(cpBufferedSplats, Len(wkInput[wkNext].splats))
                  /\ cpBufferedItems # <<>>
               THEN "lock"
               ELSE "fill"
    /\ UNCHANGED <<wkInput, cpBufferedItems, cpBufferedSplats, cpScan, cpBest, cpSeen, cpOutGroup,
                   cpItem, cpNotified, wkPopLocked, wkPending, wkBatches, wkRace>>
    /\ UNCHANGED deviceVars
    /\ UNCHANGED nonWorkerVars

\* flush(): popLock(owner.popMutex); outGroup = NULL; best = 0.
CopyLock ==
    /\ cpPc = "lock"
    /\ ~wkPopLocked
    /\ wkPopLocked' = TRUE
    /\ cpOutGroup' = 0
    /\ cpBest' = 0
    /\ cpSeen' = NoneSeen
    /\ cpScan' = 1
    /\ cpPc' = "scan"
    /\ UNCHANGED <<wkInput, wkNext, cpWork, cpBufferedItems, cpBufferedSplats, cpItem,
                   cpNotified, wkPending, wkBatches, wkRace>>
    /\ UNCHANGED deviceVars
    /\ UNCHANGED nonWorkerVars

\* Mutant of canGet: every group is reported to have a free item.
canGet_Always(g) == TRUE

\* DeviceWorkerGroup::canGet
canGet(g) == dgPool[g] > 0

\* Mutant of Better: every group with a free item replaces the choice.
Better_Any(u, best) == TRUE

\* flush(): u >= best
Better(u, best) == u >= best

\* flush(): the outGroup after the loop body has run for group g.
ScanChoice(g) == IF canGet(g) /\ Better(dgUnallocated[g], cpBest) THEN g ELSE cpOutGroup

\* flush(): one pass of the loop over outGroups.
CopyScan ==
    /\ cpPc = "scan"
    /\ LET g == cpScan
           take == canGet(g) /\ Better(dgUnallocated[g], cpBest)
       IN  /\ cpBest' = IF take THEN dgUnallocated[g] ELSE cpBest
           /\ cpSeen' = IF canGet(g) THEN [cpSeen EXCEPT ![g] = dgUnallocated[g]] ELSE cpSeen
           /\ cpOutGroup' = ScanChoice(g)
           /\ IF g < NumGroups
              THEN cpScan' = g + 1 /\ UNCHANGED cpPc
              ELSE cpScan' = 1 /\ cpPc' = "scanned"
    /\ UNCHANGED <<wkInput, wkNext, cpWork, cpBufferedItems, cpBufferedSplats, cpItem,
                   cpNotified, wkPopLocked, wkPending, wkBatches, wkRace>>
    /\ UNCHANGED deviceVars
    /\ UNCHANGED nonWorkerVars

\* flush() after the loop over outGroups: with a group chosen leave the
\* while loop and unlock popMutex; otherwise popCondition.wait(popLock),
\* which unlocks popMutex and starts to wait in one step, so that only a
\* notification sent from now on ends the wait.
CopyDecide ==
    /\ cpPc = "scanned"
    /\ wkPopLocked' = FALSE
    /\ cpNotified' = FALSE
    /\ cpPc' = IF cpOutGroup # 0 THEN "get" ELSE "waiting"
    /\ UNCHANGED <<wkInput, wkNext, cpWork, cpBufferedItems, cpBufferedSplats, cpScan, cpBest,
                   cpSeen, cpOutGroup, cpItem, wkPending, wkBatches, wkRace>>
    /\ UNCHANGED deviceVars
    /\ UNCHANGED nonWorkerVars

\* popCondition.wait returns: popMutex is held again, the while loop repeats.
CopyWake ==
    /\ cpPc = "waiting"
    /\ cpNotified
    /\ ~wkPopLocked
    /\ wkPopLocked' = TRUE
    /\ cpBest' = 0
    /\ cpSeen' = NoneSeen
    /\ cpScan' = 1
    /\ cpPc' = "scan"
    /\ UNCHANGED <<wkInput, wkNext, cpWork, cpBufferedItems, cpBufferedSplats, cpOutGroup,
                   cpItem, cpNotified, wkPending, wkBatches, wkRace>>
    /\ UNCHANGED deviceVars
    /\ UNCHANGED nonWorkerVars

\* DeviceWorkerGroup::get: itemPool.pop(), which blocks on an empty pool.
CopyGetPop ==
    /\ cpPc = "get"
    /\ dgPool[cpOutGroup] > 0
    /\ dgPool' = [dgPool EXCEPT ![cpOutGroup] = @ - 1]
    /\ cpItem' = [batch |-> wkBatches + 1, subItems |-> <<>>]
    /\ cpPc' = "charge"
    /\ UNCHANGED <<wkInput, wkNext, cpWork, cpBufferedItems, cpBufferedSplats, cpScan, cpBest, cpSeen,
                   cpOutGroup, cpNotified, wkPopLocked, wkPending, wkBatches, wkRace>>
    /\ UNCHANGED <<wkProgress, dgConfig, dgQueue, dgUnallocated, dwPc, dwItem, dwIdx>>
    /\ UNCHANGED nonWorkerVars

\* Mutant of ChargeAmount: a whole item is charged whatever the batch holds.
ChargeAmount_WholeItem(numSplats) == MaxItemSplats + 1

\* DeviceWorkerGroup::get: the amount taken off unallocated_.
ChargeAmount(numSplats) == numSplats

\* DeviceWorkerGroup::get: unallocated_ -= numSplats under unallocatedMutex.
CopyGetCharge ==
    /\ cpPc = "charge"
    /\ dgUnallocated' = [dgUnallocated EXCEPT
                            ![cpOutGroup] = SizeTSub(@, ChargeAmount(cpBufferedSplats))]
    /\ cpPc' = "enqueue"
    /\ UNCHANGED <<wkInput, wkNext, cpWork, cpBufferedItems, cpBufferedSplats, cpScan, cpBest, cpSeen,
                   cpOutGroup, cpItem, cpNotified, wkPopLocked, wkPending, wkBatches, wkRace>>
    /\ UNCHANGED <<wkProgress, dgConfig, dgPool, dgQueue, dwPc, dwItem, dwIdx>>
    /\ UNCHANGED nonWorkerVars

\* flush(): item->subItems.swap(bufferedItems) and the non-blocking
\* enqueueWriteBuffer from the pinned buffer, which sets item->copyEvent.
CopyEnqueue ==
    /\ cpPc = "enqueue"
    /\ cpItem' = [cpItem EXCEPT !.subItems = cpBufferedItems]
    /\ cpBufferedItems' = cpItem.subItems
    /\ wkBatches' = wkBatches + 1
    /\ wkPending' = cpItem.batch
    /\ cpPc' = "push"
    /\ UNCHANGED <<wkInput, wkNext, cpWork, cpBufferedSplats, cpScan, cpBest, cpSeen, cpOutGroup,
                   cpNotified, wkPopLocked, wkRace>>
    /\ UNCHANGED deviceVars
    /\ UNCHANGED nonWorkerVars

\* flush(): outGroup->push(item).
CopyPush ==
    /\ cpPc = "push"
    /\ dgQueue' = [dgQueue EXCEPT ![cpOutGroup] = Append(@, cpItem)]
    /\ cpItem' = NoItem
    /\ cpPc' = "wait"
    /\ UNCHANGED <<wkInput, wkNext, cpWork, cpBufferedItems, cpBufferedSplats, cpScan, cpBest, cpSeen,
                   cpOutGroup, cpNotified, wkPopLocked, wkPending, wkBatches, wkRace>>
    /\ UNCHANGED <<wkProgress, dgConfig, dgPool, dgUnallocated, dwPc, dwItem, dwIdx>>
    /\ UNCHANGED nonWorkerVars

\* The device's copy queue finishes the write: copyEvent completes.
TransferComplete ==
    /\ wkPending # 0
    /\ wkPending' = 0
    /\ UNCHANGED <<wkInput, wkNext, cpPc, cpWork, cpBufferedItems, cpBufferedSplats, cpScan,
                   cpBest, cpSeen, cpOutGroup, cpItem, cpNotified, wkPopLocked, wkBatches, wkRace>>
    /\ UNCHANGED deviceVars
    /\ UNCHANGED nonWorkerVars

\* Mutant of CopyEventComplete: flush() does not wait for the event.
CopyEventComplete_NoWait == TRUE

\* copyEvent.wait() returns.
CopyEventComplete == wkPending = 0

\* flush(): copyEvent.wait(); bufferedSplats = 0; return to operator().
CopyWait ==
    /\ cpPc = "wait"
    /\ CopyEventComplete
    /\ cpBufferedSplats' = 0
    /\ cpPc' = "fill"
    /\ UNCHANGED <<wkInput, wkNext, cpWork, cpBufferedItems, cpScan, cpBest, cpSeen, cpOutGroup,
                   cpItem, cpNotified, wkPopLocked, wkPending, wkBatches, wkRace>>
    /\ UNCHANGED deviceVars
    /\ UNCHANGED nonWorkerVars

\* operator() after flush(): copy the splats to pinned + bufferedSplats,
\* count progressSplats, append the SubItem, bufferedSplats += numSplats.
CopyFill ==
    /\ cpPc = "fill"
    /\ cpBufferedItems' =
          Append(cpBufferedItems,
                 SubItem(cpWork.chunkId, cpWork.grid, Len(cpWork.splats), cpBufferedSplats,
                         CountInside(cpWork.splats, cpWork.grid, 1)))
    /\ cpBufferedSplats' = cpBufferedSplats + Len(cpWork.splats)
    /\ wkRace' = (wkRace \/ wkPending # 0)
    /\ cpWork' = NoWork
    /\ cpPc' = "idle"
    /\ UNCHANGED <<wkInput, wkNext, cpScan, cpBest, cpSeen, cpOutGroup, cpItem, cpNotified,
                   wkPopLocked, wkPending, wkBatches>>
    /\ UNCHANGED deviceVars
    /\ UNCHANGED nonWorkerVars

\* Worker loop: pop the next item from the group's work queue.
WorkerPop(d) ==
    /\ dwPc[d] = "idle"
    /\ dgQueue[d[1]] # <<>>
    /\ dwItem' = [dwItem EXCEPT ![d] = Head(dgQueue[d[1]])]
    /\ dgQueue' = [dgQueue EXCEPT ![d[1]] = Tail(@)]
    /\ dwIdx' = [dwIdx EXCEPT ![d] = 1]
    /\ dwPc' = [dwPc EXCEPT ![d] = "enter"]
    /\ UNCHANGED <<wkProgress, dgConfig, dgPool, dgUnallocated>>
    /\ UNCHANGED copyVars
    /\ UNCHANGED nonWorkerVars

\* DeviceWorkerGroupBase::Worker::operator(), per SubItem: the call
\* owner.outputGenerator(sub.chunkId, ...); the filter chain then feeds the
\* returned functor until marching.generate returns.
WorkerEnter(d) ==
    /\ dwPc[d] = "enter"
    /\ dwPc' = [dwPc EXCEPT ![d] = "output"]
    /\ UNCHANGED <<wkProgress, dgConfig, dgPool, dgQueue, dgUnallocated, dwItem, dwIdx>>
    /\ UNCHANGED copyVars
    /\ UNCHANGED nonWorkerVars

\* The tree build waits for work.copyEvent; marching.generate returns;
\* tree.clearSplats(); *owner.progress += sub.progressSplats.
WorkerGenerate(d) ==
    /\ dwPc[d] = "output"
    /\ wkPending # dwItem[d].batch
    /\ wkProgress' = wkProgress + dwItem[d].subItems[dwIdx[d]].progressSplats
    /\ dwPc' = [dwPc EXCEPT ![d] = "credit"]
    /\ UNCHANGED <<dgConfig, dgPool, dgQueue, dgUnallocated, dwItem, dwIdx>>
    /\ UNCHANGED copyVars
    /\ UNCHANGED nonWorkerVars

\* Mutant of CreditAmount: the splats counted for progress are given back.
CreditAmount_Progress(sub) == sub.progressSplats

\* Worker::operator(): the amount added back to unallocated_.
CreditAmount(sub) == sub.numSplats

\* owner.unallocated_ += sub.numSplats under unallocatedMutex, then the next
\* SubItem or the return from operator().
WorkerCredit(d) ==
    /\ dwPc[d] = "credit"
    /\ dgUnallocated' = [dgUnallocated EXCEPT
                            ![d[1]] = SizeTAdd(@, CreditAmount(dwItem[d].subItems[dwIdx[d]]))]
    /\ IF dwIdx[d] < Len(dwItem[d].subItems)
       THEN /\ dwIdx' = [dwIdx EXCEPT ![d] = @ + 1]
            /\ dwPc' = [dwPc EXCEPT ![d] = "enter"]
       ELSE /\ dwPc' = [dwPc EXCEPT ![d] = "free"]
            /\ UNCHANGED dwIdx
    /\ UNCHANGED <<wkProgress, dgConfig, dgPool, dgQueue, dwItem>>
    /\ UNCHANGED copyVars
    /\ UNCHANGED nonWorkerVars

\* Mutant of FreeItemBlocked: freeItem does not take popMutex.
FreeItemBlocked_NoMutex == FALSE

\* DeviceWorkerGroup::freeItem: lock_guard popLock(*popMutex) has to wait.
FreeItemBlocked == wkPopLocked

\* DeviceWorkerGroup::freeItem: under popMutex, itemPool.push and
\* popCondition->notify_one().
WorkerFree(d) ==
    /\ dwPc[d] = "free"
    /\ ~FreeItemBlocked
    /\ dgPool' = [dgPool EXCEPT ![d[1]] = @ + 1]
    /\ cpNotified' = (cpNotified \/ cpPc = "waiting")
    /\ dwItem' = [dwItem EXCEPT ![d] = NoItem]
    /\ dwIdx' = [dwIdx EXCEPT ![d] = 0]
    /\ dwPc' = [dwPc EXCEPT ![d] = "idle"]
    /\ UNCHANGED <<wkInput, wkNext, cpPc, cpWork, cpBufferedItems, cpBufferedSplats, cpScan,
                   cpBest, cpSeen, cpOutGroup, cpItem, wkPopLocked, wkPending, wkBatches, wkRace>>
    /\ UNCHANGED <<wkProgress, dgConfig, dgQueue, dgUnallocated>>
    /\ UNCHANGED nonWorkerVars

WorkersNext ==
    \/ CopyBegin
    \/ CopyLock
    \/ CopyScan
    \/ CopyDecide
    \/ CopyWake
    \/ CopyGetPop
    \/ CopyGetCharge
    \/ CopyEnqueue
    \/ CopyPush
    \/ TransferComplete
    \/ CopyWait
    \/ CopyFill
    \/ \E d \in DeviceWorkers : WorkerPop(d)
    \/ \E d \in DeviceWorkers : WorkerEnter(d)
    \/ \E d \in DeviceWorkers : WorkerGenerate(d)
    \/ \E d \in DeviceWorkers : WorkerCredit(d)
    \/ \E d \in DeviceWorkers : WorkerFree(d)

(***************************************************************************)
(* Properties of the copy and device worker groups.                        *)
(***************************************************************************)
\* Sum of numSplats over subItems[from..].
RECURSIVE SubItemSplats(_, _)
SubItemSplats(subItems, from) ==
    IF from > Len(subItems)
    THEN 0
    ELSE subItems[from].numSplats + SubItemSplats(subItems, from + 1)

RECURSIVE QueueSplats(_)
QueueSplats(queue) ==
    IF queue = <<>> THEN 0 ELSE SubItemSplats(Head(queue).subItems, 1) + QueueSplats(Tail(queue))

\* Splats of group g taken off unallocated_ by get() and not yet added back
\* by a worker: the batch the copy worker is dispatching, the queued items
\* and the SubItems the workers have not finished.
ChargedSplats(g) ==
    (IF cpOutGroup = g /\ cpPc \in {"enqueue", "push"} THEN cpBufferedSplats ELSE 0)
    + QueueSplats(dgQueue[g])
    + SeqSum([w \in 1..2 |->
                 IF dwPc[<<g, w>>] \in {"enter", "output", "credit"}
                 THEN SubItemSplats(dwItem[<<g, w>>].subItems, dwIdx[<<g, w>>])
                 ELSE 0])

\* C7: unallocated_ stays within 0 .. (numWorkers + spare) * maxItemSplats
\* and the splats charged and not yet credited are exactly the difference
\* to that total.
C7_UnallocatedAccounting ==
    \A g \in Groups :
        /\ dgUnallocated[g] >= 0
        /\ dgUnallocated[g] <= GroupTotal(dgConfig[g])
        /\ ChargedSplats(g) = GroupTotal(dgConfig[g]) - dgUnallocated[g]

\* A group whose whole budget is charged while one of its workers has
\* credited the first SubItem of a batch and not yet the second.
C7_Witness ==
    \E d \in DeviceWorkers :
        /\ dwPc[d] = "enter"
        /\ dwIdx[d] = 2
        /\ dgUnallocated[d[1]] < GroupTotal(dgConfig[d[1]])
        /\ \E g \in Groups : dgUnallocated[g] = 0

\* C8: when flush() is about to call get() on the group it selected, that
\* group's item pool is non-empty.
C8_GetNeverBlocks ==
    cpPc = "get" => cpOutGroup \in Groups /\ dgPool[cpOutGroup] > 0

\* flush() is about to call get() on a group with one free item while a
\* worker of that group is about to free another.
C8_Witness ==
    /\ cpPc = "get"
    /\ dgPool[cpOutGroup] = 1
    /\ \E w \in 1..2 : dwPc[<<cpOutGroup, w>>] = "free"

\* C9: the pinned buffer is never written while a device write reads it:
\* while the write is pending the copy worker is between the enqueue and the
\* end of the wait with bufferedSplats not yet reset, the item has left its
\* hands before it waits, and it fills the buffer only with no write pending.
C9_PinnedSafe ==
    /\ ~wkRace
    /\ cpPc = "fill" => wkPending = 0
    /\ wkPending # 0 => cpPc \in {"push", "wait"} /\ cpBufferedSplats > 0
    /\ cpPc = "wait" => cpItem = NoItem

\* The copy worker waits for a write whose item a device worker has already
\* taken from the queue.
C9_Witness ==
    /\ cpPc = "wait"
    /\ wkPending # 0
    /\ \E d \in DeviceWorkers : dwPc[d] = "output" /\ dwItem[d].batch = wkPending

\* The chunk whose output functor device worker d is using.
OutputChunk(d) == dwItem[d].subItems[dwIdx[d]].chunkId

\* C10: no two device workers are inside outputGenerator, or the filter it
\* returned, for the same chunkId at the same time.
C10_OneCallPerChunk ==
    \A d, e \in DeviceWorkers :
        (d # e /\ dwPc[d] = "output" /\ dwPc[e] = "output") => OutputChunk(d) # OutputChunk(e)

\* Every work item has been taken by the copy worker, which is back in its
\* loop, no item is queued and no device worker holds one.
Drained ==
    /\ cpPc = "idle"
    /\ wkNext > Len(wkInput)
    /\ \A g \in Groups : dgQueue[g] = <<>>
    /\ \A d \in DeviceWorkers : dwPc[d] \in {"idle", "off"}

\* C11: once every dispatched item has been processed and freed, each
\* group's unallocated_ is back at maxItemSplats * (numWorkers + spare) and
\* its item pool holds all numWorkers + spare items again.
C11_DrainedRestoresBudget ==
    Drained =>
        \A g \in Groups :
            /\ dgUnallocated[g] = GroupTotal(dgConfig[g])
            /\ dgPool[g] = GroupItems(dgConfig[g])

\* The pipeline has drained after at least two batches went to the devices,
\* one of them with a splat outside its bucket's half-open extents.
C11_Witness ==
    /\ Drained
    /\ wkBatches >= 2
    /\ wkProgress > 0
    /\ \E i \in 1..Len(wkInput) :
           CountInside(wkInput[i].splats, wkInput[i].grid, 1) < Len(wkInput[i].splats)

\* The SubItem operator() makes from a work item at offset firstSplat.
SubItemOf(work, firstSplat) ==
    SubItem(work.chunkId, work.grid, Len(work.splats), firstSplat,
            CountInside(work.splats, work.grid, 1))

\* The SubItem lists of the batches that have left the copy worker's pending
\* list and have not been freed: the item flush() holds, the queued items
\* and the items in the device workers' hands.
FlushedBatches ==
    ({cpItem.subItems}
        \cup UNION { { dgQueue[g][i].subItems : i \in 1..Len(dgQueue[g]) } : g \in Groups }
        \cup { dwItem[d].subItems : d \in DeviceWorkers }) \ {<<>>}

\* The intervals [firstSplat, firstSplat + numSplats) of subItems start at
\* 0, each begins where the one before it ends, and the last ends at total.
Consecutive(subItems, total) ==
    /\ subItems # <<>> => subItems[1].firstSplat = 0
    /\ \A i \in 1..(Len(subItems) - 1) :
           subItems[i + 1].firstSplat = subItems[i].firstSplat + subItems[i].numSplats
    /\ \A i \in 1..Len(subItems) : subItems[i].numSplats > 0
    /\ SubItemSplats(subItems, 1) = total

\* subItems are the SubItems of the work items wkInput[last - n + 1 .. last]
\* in that order.
InArrivalOrder(subItems, last) ==
    /\ last >= Len(subItems)
    /\ last <= Len(wkInput)
    /\ \A i \in 1..Len(subItems) :
           subItems[i] = SubItemOf(wkInput[last - Len(subItems) + i], subItems[i].firstSplat)

\* The number of work items operator() has copied to the pinned buffer.
WorkFilled == wkNext - 1 - (IF cpWork # NoWork THEN 1 ELSE 0)

\* The copy worker is past the swap of flush() and before its last
\* statement, bufferedSplats = 0.
InFlushAfterSwap == cpPc \in {"push", "wait"}

\* The layout of the flushed batches and of the pending list.
BatchLayout ==
    /\ \A b \in FlushedBatches :
           /\ Consecutive(b, SubItemSplats(b, 1))
           /\ SubItemSplats(b, 1) <= MaxItemSplats
           /\ \E last \in 1..Len(wkInput) : InArrivalOrder(b, last)
    /\ ~InFlushAfterSwap =>
           /\ Consecutive(cpBufferedItems, cpBufferedSplats)
           /\ InArrivalOrder(cpBufferedItems, WorkFilled)
           /\ cpBufferedSplats <= MaxItemSplats
    /\ InFlushAfterSwap => cpBufferedItems = <<>>
    /\ cpPc = "fill" => cpBufferedSplats + Len(cpWork.splats) <= MaxItemSplats

\* flush() returns to operator() with both the pending list and
\* bufferedSplats empty.
FlushReturnsEmpty ==
    (cpPc = "wait" /\ cpPc' # "wait") => (cpBufferedItems' = <<>> /\ cpBufferedSplats' = 0)

\* C27: in every flushed batch the SubItems are in the order the copy worker
\* received their work items, their [firstSplat, firstSplat + numSplats)
\* intervals start at 0, are consecutive and end at the batch's size, which
\* is at most maxDeviceItemSplats; outside the tail of flush() the pending
\* SubItems are the latest work items in order with consecutive intervals
\* ending at bufferedSplats <= maxDeviceItemSplats, and the work item in hand
\* fits behind them; once flush() has swapped the list away the pending list
\* is empty, and bufferedSplats is 0 when it returns.
C27_BatchLayout == []BatchLayout /\ [][FlushReturnsEmpty]_vars

\* C27 as stated for every point of the program: bufferedSplats is the sum
\* of numSplats over the pending SubItems.
C27_SumAtAllTimes == cpBufferedSplats = SubItemSplats(cpBufferedItems, 1)

\* A device worker holds a batch of two SubItems while flush() has returned
\* from a later batch, so that the pending list and bufferedSplats are empty
\* before the work item in hand is copied.
C27_Witness ==
    /\ \E d \in DeviceWorkers : Len(dwItem[d].subItems) = 2
    /\ cpPc = "fill"
    /\ wkBatches >= 2
    /\ cpBufferedItems = <<>>
    /\ cpBufferedSplats = 0

\* The groups whose canGet() held when the current scan read them.
SeenFree == { h \in Groups : cpSeen[h] >= 0 }

\* g is a group read with a free item whose unallocated() was the largest
\* of all those read with a free item in the scan.
LargestSeen(g) ==
    /\ g \in SeenFree
    /\ \A h \in SeenFree : cpSeen[h] <= cpSeen[g]

\* C28: the group flush() dispatches to was read with a free item in the
\* scan that selected it and the value unallocated() returned for it was the
\* largest of the values returned for the groups with a free item; it still
\* has a free item when get() pops one; and flush() waits on popCondition
\* exactly when the scan found no group with a free item, a group's free
\* items never changing while the scan holds popMutex.
C28_DispatchToLargestSeen ==
    /\ cpPc = "scan" =>
           /\ \A h \in Groups : (h \in SeenFree) <=> (h < cpScan /\ canGet(h))
           /\ SeenFree # {} => LargestSeen(cpOutGroup) /\ cpBest = cpSeen[cpOutGroup]
           /\ SeenFree = {} => cpOutGroup = 0
    /\ cpPc = "scanned" =>
           /\ \A h \in Groups : (h \in SeenFree) <=> canGet(h)
           /\ SeenFree # {} => LargestSeen(cpOutGroup)
           /\ SeenFree = {} => cpOutGroup = 0
    /\ cpPc \in {"get", "charge", "enqueue", "push"} => LargestSeen(cpOutGroup)
    /\ cpPc = "get" => canGet(cpOutGroup)
    /\ cpPc = "waiting" => SeenFree = {} /\ cpOutGroup = 0

\* C28 as stated for the moment of selection: when the loop body runs for
\* the last group, the group it leaves in outGroup holds the largest
\* unallocated_ of all groups that have a free item at that moment.
C28_LargestAtSelection ==
    (cpPc = "scan" /\ cpScan = NumGroups /\ ScanChoice(cpScan) # 0) =>
        \A h \in Groups :
            canGet(h) => dgUnallocated[h] <= dgUnallocated[ScanChoice(cpScan)]

\* flush() pushes a batch to the second group, chosen on a tie with the
\* first, both having had a free item, while the first group's unallocated_
\* has grown since the scan read it.
C28_Witness ==
    /\ cpPc = "push"
    /\ cpOutGroup = 2
    /\ SeenFree = Groups
    /\ cpSeen[1] = cpSeen[2]
    /\ dgUnallocated[1] > cpSeen[1]

\* The steps of the copy worker's thread, of device worker d's thread and
\* of the devices' copy queues.
CopyThread ==
    \/ CopyBegin
    \/ CopyLock
    \/ CopyScan
    \/ CopyDecide
    \/ CopyWake
    \/ CopyGetPop
    \/ CopyGetCharge
    \/ CopyEnqueue
    \/ CopyPush
    \/ CopyWait
    \/ CopyFill

DeviceThread(d) ==
    \/ WorkerPop(d)
    \/ WorkerEnter(d)
    \/ WorkerGenerate(d)
    \/ WorkerCredit(d)
    \/ WorkerFree(d)

\* Every thread that can take a step eventually takes one, and a write
\* enqueued on a device completes.
WorkersFairness ==
    /\ WF_vars(CopyThread)
    /\ \A d \in DeviceWorkers : WF_vars(DeviceThread(d))
    /\ WF_vars(TransferComplete)

\* The copy worker is inside flush() with pending SubItems.
InFlush == cpPc \in {"lock", "scan", "scanned", "waiting", "get", "charge", "enqueue", "push", "wait"}

\* flush() waits on popCondition and no freeItem has notified it since the
\* wait began.
WaitingUnnotified == cpPc = "waiting" /\ ~cpNotified

\* While flush() waits un-notified no group has a free item: no freeItem
\* has gone unnoticed between the scan and the wait.
NoLostNotification == WaitingUnnotified => \A g \in Groups : ~canGet(g)

\* C29: no notification of freeItem is lost between the scan of flush() and
\* its wait, and every flush(), one that waits on popCondition included,
\* goes on to return to operator(), which it does only after it has pushed
\* its batch to a group, given that every thread keeps running and the
\* device writes complete.
C29_FlushTerminates ==
    /\ []NoLostNotification
    /\ InFlush ~> (cpPc = "fill")

\* flush() has been woken by a freeItem after waiting, scans again and has
\* found a group with a free item.
C29_Witness ==
    /\ cpPc = "scan"
    /\ cpNotified
    /\ cpOutGroup # 0

(***************************************************************************)
(* bucket() feeding the copy worker: progress accounting.                  *)
(***************************************************************************)
\* The bucket as the loader hands it to CopyGroup: the positions of its
\* splats in reading order, and its grid extents in world units.
BucketPositions(b) ==
    [k \in 1..Len(RangesIds(b.ranges)) |->
        ReadVertex(bkFiles, RangesIds(b.ranges)[k].scan, RangesIds(b.ranges)[k].id).pos]

BucketExtents(g) == [i \in Axes |-> <<4 * g[i][1], 4 * g[i][2]>>]

\* progressSplats of the SubItem made from bucket b.
BucketProgress(b) == CountInside(BucketPositions(b), BucketExtents(b.grid), 1)

\* Splats whose position is inside the half-open extents of the grid given
\* to bucket().
InsideGlobalGrid ==
    { id \in AllSplatIds :
        \A i \in Axes :
            /\ ReadVertex(bkFiles, id[1], id[2]).pos[i] >= 4 * bkParams.grid[i][1]
            /\ ReadVertex(bkFiles, id[1], id[2]).pos[i] < 4 * bkParams.grid[i][2] }

\* C12: when bucket() has returned, the progressSplats of the SubItems made
\* from its buckets add up to the number of splats whose position is inside
\* the global grid.
C12_ProgressCountsInside ==
    bkStatus = "done" =>
        SeqSum([k \in 1..Len(bkEmitted) |-> BucketProgress(bkEmitted[k])])
            = Cardinality(InsideGlobalGrid)

(***************************************************************************)
(* SplatTree::makeCode (part_000, 225-240).                                *)
(***************************************************************************)
\* Width in bits of the arguments drawn for makeCode.
MaxCodeBits == 3

\* std::numeric_limits<code_type>::digits
CodeDigits == 32

\* The while loop: the answer and the shift it ends with.  With arguments
\* below 2^10 the sum stays below 2^30 and code_type does not wrap.
RECURSIVE makeCodeLoop(_, _, _, _, _)
makeCodeLoop(x, y, z, shift, ans) ==
    IF x = 0 /\ y = 0 /\ z = 0
    THEN [ans |-> ans, shift |-> shift]
    ELSE makeCodeLoop(x \div 2, y \div 2, z \div 2, shift + 3,
                      ans + ((x % 2) + 2 * (y % 2) + 4 * (z % 2)) * Pow2(shift))

\* Mutant of makeCode: the digits of y and z change places.
makeCode_SwapYZ(x, y, z) == makeCodeLoop(x, z, y, 0, 0).ans

makeCode(x, y, z) == makeCodeLoop(x, y, z, 0, 0).ans

\* MLSGPU_ASSERT(shift < digits, std::range_error)
makeCodeThrows(x, y, z) == ~(makeCodeLoop(x, y, z, 0, 0).shift < CodeDigits)

CodeInit ==
    /\ mcIn \in (0..(Pow2(MaxCodeBits) - 1)) \X (0..(Pow2(MaxCodeBits) - 1))
                 \X (0..(Pow2(MaxCodeBits) - 1))
    /\ mcOut = [called |-> FALSE, ans |-> 0, thrown |-> FALSE]

CodeIdle ==
    /\ mcIn = <<0, 0, 0>>
    /\ mcOut = [called |-> FALSE, ans |-> 0, thrown |-> FALSE]

\* One call of makeCode(x, y, z).
CodeCall ==
    /\ ~mcOut.called
    /\ mcOut' = [called |-> TRUE,
                 ans |-> makeCode(mcIn[1], mcIn[2], mcIn[3]),
                 thrown |-> makeCodeThrows(mcIn[1], mcIn[2], mcIn[3])]
    /\ UNCHANGED mcIn
    /\ UNCHANGED nonCodeVars

CodeNext == CodeCall

\* Bit i of n.
BitOf(n, i) == (n \div Pow2(i)) % 2

\* The number whose bit i is bit 3i + axis of code c (axis 0, 1 or 2).
Deinterleave(c, axis) ==
    SeqSum([k \in 1..MaxCodeBits |-> BitOf(c, 3 * (k - 1) + axis) * Pow2(k - 1)])

\* C16: makeCode puts bit i of x, y, z at positions 3i, 3i+1, 3i+2; it maps
\* [0,2^L)^3 into [0,2^(3L)), distinct arguments to distinct codes, and every
\* code below 2^(3L) is the code of arguments below 2^L; makeCode(0,0,0) = 0,
\* makeCode(1,1,1) = 7, makeCode(2,5,3) = 174, makeCode(7,7,7) = 511.
C16_MakeCodeInterleaves ==
    mcOut.called =>
        LET x == mcIn[1]
            y == mcIn[2]
            z == mcIn[3]
            c == x + Pow2(MaxCodeBits) * y + Pow2(2 * MaxCodeBits) * z
        IN  /\ ~mcOut.thrown
            /\ \A i \in 0..(MaxCodeBits - 1) :
                  /\ BitOf(mcOut.ans, 3 * i) = BitOf(x, i)
                  /\ BitOf(mcOut.ans, 3 * i + 1) = BitOf(y, i)
                  /\ BitOf(mcOut.ans, 3 * i + 2) = BitOf(z, i)
            /\ \A L \in 0..MaxCodeBits :
                  (x < Pow2(L) /\ y < Pow2(L) /\ z < Pow2(L))
                      => mcOut.ans >= 0 /\ mcOut.ans < Pow2(3 * L)
            /\ <<Deinterleave(mcOut.ans, 0), Deinterleave(mcOut.ans, 1),
                  Deinterleave(mcOut.ans, 2)>> = mcIn
            /\ makeCode(Deinterleave(c, 0), Deinterleave(c, 1), Deinterleave(c, 2)) = c
            /\ \A L \in 0..MaxCodeBits :
                  c < Pow2(3 * L) => \A a \in 0..2 : Deinterleave(c, a) < Pow2(L)
            /\ mcIn = <<0, 0, 0>> => mcOut.ans = 0
            /\ mcIn = <<1, 1, 1>> => mcOut.ans = 7
            /\ mcIn = <<2, 5, 3>> => mcOut.ans = 174
            /\ mcIn = <<7, 7, 7>> => mcOut.ans = 511

\* makeCode(2, 5, 3) has returned 174.
C16_Witness ==
    /\ mcOut.called
    /\ mcIn = <<2, 5, 3>>
    /\ mcOut.ans = 174

(***************************************************************************)
(* SplatTree::initialize (part_000, 248-381).  Splats are in quarter cells *)
(* as for bucket(); the grid has its reference at the origin, spacing one  *)
(* cell and lower extents 0, so vertex v is at world coordinate 4 * v.     *)
(***************************************************************************)
\* Largest number of splats given to a SplatTree.
MaxTreeSplats == 2

\* Splats: covering no vertex, the vertex (0,0,0), the vertices [0,1]^3,
\* the vertices [0,2]^3 and the vertex (2,1,1).
TreeSplatChoices ==
    { MakeSplat(2, 2, 2, 1), MakeSplat(0, 0, 0, 1), MakeSplat(2, 2, 2, 3),
      MakeSplat(4, 4, 4, 5), MakeSplat(8, 4, 4, 1) }

TreeDimChoices == { <<1, 1, 1>>, <<2, 2, 2>>, <<3, 3, 3>> }

\* A grid with four octree levels, and splats for it: the vertex (0,0,0)
\* (finest level), the vertices [0,2]^3 (one level above) and the vertices
\* [0,4]^3 (two levels above).
DeepTreeDims == <<5, 5, 5>>

DeepTreeSplatChoices ==
    { MakeSplat(0, 0, 0, 1), MakeSplat(4, 4, 4, 5), MakeSplat(8, 8, 8, 8) }

\* The while loop choosing maxLevel.
RECURSIVE ChooseMaxLevel(_, _)
ChooseMaxLevel(size, maxLevel) ==
    IF Pow2(maxLevel) < size THEN ChooseMaxLevel(size, maxLevel + 1) ELSE maxLevel

TreeMaxLevel(dims) == ChooseMaxLevel(Max2(Max2(dims[1], dims[2]), dims[3]), 0)

\* RoundUp::convert(vlo[i]) and RoundDown::convert(vhi[i]) of the vertex
\* coordinates grid.worldToVertex gives for position - radius and
\* position + radius.
SplatLo(splat) == [i \in Axes |-> -((-(splat.pos[i] - splat.radius)) \div 4)]

SplatHi(splat) == [i \in Axes |-> (splat.pos[i] + splat.radius) \div 4]

\* The two MLSGPU_ASSERTs on ihi[i] and ilo[i].
SplatInRange(splat, dims) ==
    \A i \in Axes :
        /\ SplatHi(splat)[i] >= 0 /\ SplatHi(splat)[i] < dims[i]
        /\ SplatLo(splat)[i] >= 0 /\ SplatLo(splat)[i] < dims[i]

\* while ((ihi[i] >> shift) - (ilo[i] >> shift) > 1) shift++
RECURSIVE CoarsenShift(_, _, _)
CoarsenShift(lo, hi, shift) ==
    IF (hi \div Pow2(shift)) - (lo \div Pow2(shift)) > 1
    THEN CoarsenShift(lo, hi, shift + 1)
    ELSE shift

\* The shift after the loop over the three axes.
SplatShift(splat) ==
    LET lo == SplatLo(splat)
        hi == SplatHi(splat)
    IN  CoarsenShift(lo[3], hi[3], CoarsenShift(lo[2], hi[2], CoarsenShift(lo[1], hi[1], 0)))

Entry(level, code, splatId) == [level |-> level, code |-> code, splatId |-> splatId]

\* The entries pushed for one splat: z outermost, x innermost.
SplatEntries(splat, splatId, maxLevel) ==
    LET shift == SplatShift(splat)
        lo == [i \in Axes |-> SplatLo(splat)[i] \div Pow2(shift)]
        hi == [i \in Axes |-> SplatHi(splat)[i] \div Pow2(shift)]
        n == [i \in Axes |-> IF hi[i] >= lo[i] THEN hi[i] - lo[i] + 1 ELSE 0]
    IN  [k \in 1..(n[1] * n[2] * n[3]) |->
            Entry(maxLevel - shift,
                  makeCode(lo[1] + ((k - 1) % n[1]),
                           lo[2] + (((k - 1) \div n[1]) % n[2]),
                           lo[3] + ((k - 1) \div (n[1] * n[2]))),
                  splatId)]

\* The entries of splats[from ..], ordered by splat id (ids count from 0).
RECURSIVE AllEntries(_, _, _)
AllEntries(splats, from, maxLevel) ==
    IF from > Len(splats)
    THEN <<>>
    ELSE SplatEntries(splats[from], from - 1, maxLevel)
             \o AllEntries(splats, from + 1, maxLevel)

\* Mutant of EntryLess: codes ascending within a level.
EntryLess_Ascending(a, b) ==
    IF a.level # b.level THEN a.level < b.level ELSE a.code < b.code

\* Entry::operator<
EntryLess(a, b) ==
    IF a.level # b.level THEN a.level < b.level ELSE a.code > b.code

\* stable_sort as an insertion sort: e goes before the first element that
\* is greater than it.
RECURSIVE InsertEntry(_, _)
InsertEntry(sorted, e) ==
    IF sorted = <<>>
    THEN <<e>>
    ELSE IF EntryLess(e, Head(sorted))
         THEN <<e>> \o sorted
         ELSE <<Head(sorted)>> \o InsertEntry(Tail(sorted), e)

RECURSIVE StableSort(_)
StableSort(es) ==
    IF es = <<>>
    THEN <<>>
    ELSE InsertEntry(StableSort(SubSeq(es, 1, Len(es) - 1)), es[Len(es)])

\* Mutant of NumCommands: the changes of sort key are not counted.
NumCommands_NoChanges(entries) == Len(entries) + 1

\* numCommands: entries.size() + 1 plus one for every change of sort key.
NumCommands(entries) ==
    Len(entries) + 1
    + Cardinality({ i \in 2..Len(entries) :
                        \/ entries[i].level # entries[i - 1].level
                        \/ entries[i].code # entries[i - 1].code })

NoLookup == [done |-> FALSE, vertex |-> <<0, 0, 0>>, start |-> -1, ok |-> TRUE, ids |-> <<>>]

TreeInit ==
    /\ \/ /\ trDims \in TreeDimChoices
          /\ trSplats \in UNION { [1..n -> TreeSplatChoices] : n \in 0..MaxTreeSplats }
       \/ /\ trDims = DeepTreeDims
          /\ trSplats \in UNION { [1..n -> DeepTreeSplatChoices] : n \in 0..MaxTreeSplats }
    /\ trEntries = <<>>
    /\ trNumCommands = 0
    /\ trCommands = <<>>
    /\ trStart = <<>>
    /\ trLevel = 0
    /\ trCode = 0
    /\ trP = 0
    /\ trStatus = "new"
    /\ trLookup = NoLookup

TreeIdle ==
    /\ trDims = <<1, 1, 1>>
    /\ trSplats = <<>>
    /\ trEntries = <<>>
    /\ trNumCommands = 0
    /\ trCommands = <<>>
    /\ trStart = <<>>
    /\ trLevel = 0
    /\ trCode = 0
    /\ trP = 0
    /\ trStatus = "idle"
    /\ trLookup = NoLookup

\* initialize() up to the command-list loop, with a splat outside the grid:
\* MLSGPU_ASSERT throws std::out_of_range.
TreeOutOfRange ==
    /\ trStatus = "new"
    /\ \E i \in 1..Len(trSplats) : ~SplatInRange(trSplats[i], trDims)
    /\ trStatus' = "out_of_range"
    /\ UNCHANGED <<trDims, trSplats, trEntries, trNumCommands, trCommands, trStart, trLevel,
                   trCode, trP, trLookup>>
    /\ UNCHANGED nonTreeVars

\* initialize() up to the command-list loop: the entries, stable_sort,
\* numCommands, allocateCommands and the start vector filled with -1.
TreeSort ==
    /\ trStatus = "new"
    /\ \A i \in 1..Len(trSplats) : SplatInRange(trSplats[i], trDims)
    /\ trEntries' = StableSort(AllEntries(trSplats, 1, TreeMaxLevel(trDims)))
    /\ trNumCommands' = NumCommands(trEntries')
    /\ trStart' = [c \in 0..(Pow2(3 * TreeMaxLevel(trDims)) - 1) |-> -1]
    /\ trCommands' = <<>>
    /\ trLevel' = 0
    /\ trCode' = 0
    /\ trP' = 0
    /\ trStatus' = "loop"
    /\ UNCHANGED <<trDims, trSplats, trLookup>>
    /\ UNCHANGED nonTreeVars

\* while (entries[q].level == level && entries[q].code == code) q++, for
\* the reads inside the vector: the index (from 0) at which the loop stops
\* or leaves the vector.
RECURSIVE RunEnd(_, _, _, _)
RunEnd(entries, q, level, code) ==
    IF q < Len(entries) /\ entries[q + 1].level = level /\ entries[q + 1].code = code
    THEN RunEnd(entries, q + 1, level, code)
    ELSE q

\* Mutant of ParentCode: the slot of the cell itself.
ParentCode_Self(code) == code

\* code >> 3: the code of the parent cell, one level up.
ParentCode(code) == code \div 8

\* Mutant of RunCommands: no terminator or jump ends the run.
RunCommands_NoTerminator(entries, p, q, up) ==
    [i \in 1..(q - p) |-> entries[p + i].splatId]

\* The commands written for the entries [p, q) and the value of `up`.
RunCommands(entries, p, q, up) ==
    [i \in 1..(q - p) |-> entries[p + i].splatId]
        \o << IF up = -1 THEN -1 ELSE -2 - up >>

\* One pass of the loop over code, with q inside the vector when the scan
\* stops; after the last pass the start array is transferred to the image.
TreeRun ==
    /\ trStatus = "loop"
    /\ LET q == RunEnd(trEntries, trP, trLevel, trCode)
           up == trStart[ParentCode(trCode)]
       IN  /\ q < Len(trEntries)
           /\ IF trP < q
              THEN /\ trCommands' = trCommands \o RunCommands(trEntries, trP, q, up)
                   /\ trStart' = [trStart EXCEPT ![trCode] = Len(trCommands)]
              ELSE /\ trCommands' = trCommands
                   /\ trStart' = [trStart EXCEPT ![trCode] = up]
           /\ trP' = q
    /\ IF trCode > 0
       THEN trCode' = trCode - 1 /\ UNCHANGED <<trLevel, trStatus>>
       ELSE IF trLevel < TreeMaxLevel(trDims)
            THEN /\ trLevel' = trLevel + 1
                 /\ trCode' = Pow2(3 * (trLevel + 1)) - 1
                 /\ UNCHANGED trStatus
            ELSE trStatus' = "built" /\ UNCHANGED <<trLevel, trCode>>
    /\ UNCHANGED <<trDims, trSplats, trEntries, trNumCommands, trLookup>>
    /\ UNCHANGED nonTreeVars

\* One pass of the loop over code in which the scan reaches
\* q = entries.size(): entries[q] is read past the end of the vector.  The
\* value read either differs from (level, code), and the pass goes on as if
\* the scan had stopped, or it does not (or the read faults) and nothing
\* is known of what follows.
TreeRunPastEnd ==
    /\ trStatus = "loop"
    /\ LET q == RunEnd(trEntries, trP, trLevel, trCode)
           up == trStart[ParentCode(trCode)]
       IN  /\ q = Len(trEntries)
           /\ \E differs \in BOOLEAN :
                 IF differs
                 THEN /\ IF trP < q
                         THEN /\ trCommands' =
                                     trCommands \o RunCommands(trEntries, trP, q, up)
                              /\ trStart' = [trStart EXCEPT ![trCode] = Len(trCommands)]
                         ELSE /\ trCommands' = trCommands
                              /\ trStart' = [trStart EXCEPT ![trCode] = up]
                      /\ trP' = q
                      /\ IF trCode > 0
                         THEN trCode' = trCode - 1 /\ UNCHANGED <<trLevel, trStatus>>
                         ELSE IF trLevel < TreeMaxLevel(trDims)
                              THEN /\ trLevel' = trLevel + 1
                                   /\ trCode' = Pow2(3 * (trLevel + 1)) - 1
                                   /\ UNCHANGED trStatus
                              ELSE trStatus' = "built" /\ UNCHANGED <<trLevel, trCode>>
                 ELSE /\ trStatus' = "undefined"
                      /\ UNCHANGED <<trCommands, trStart, trP, trLevel, trCode>>
    /\ UNCHANGED <<trDims, trSplats, trEntries, trNumCommands, trLookup>>
    /\ UNCHANGED nonTreeVars

\* realStart[z * slicePitch + y * rowPitch + x] = start[makeCode(x, y, z)]
RealStart(v) == trStart[makeCode(v[1], v[2], v[3])]

\* The traversal the device makes: splat ids until a negative command; -1
\* ends it and v <= -2 continues at index -2 - v.  `fuel` bounds the number
\* of commands read; ok is FALSE when it runs out or the index leaves the
\* array.
RECURSIVE Traverse(_, _, _)
Traverse(commands, pos, fuel) ==
    IF pos = -1
    THEN [ok |-> TRUE, ids |-> <<>>]
    ELSE IF fuel = 0 \/ pos < 0 \/ pos >= Len(commands)
         THEN [ok |-> FALSE, ids |-> <<>>]
         ELSE LET c == commands[pos + 1]
              IN  IF c >= 0
                  THEN LET r == Traverse(commands, pos + 1, fuel - 1)
                       IN  [ok |-> r.ok, ids |-> <<c>> \o r.ids]
                  ELSE IF c = -1
                       THEN [ok |-> TRUE, ids |-> <<>>]
                       ELSE Traverse(commands, -2 - c, fuel - 1)

TreeVertices == { v \in (0..4) \X (0..4) \X (0..4) : \A i \in Axes : v[i] < trDims[i] }

\* A lookup at vertex v of the built tree.
TreeLookup(v) ==
    /\ trStatus = "built"
    /\ LET r == Traverse(trCommands, RealStart(v), Len(trCommands) + 1)
       IN  trLookup' = [done |-> TRUE, vertex |-> v, start |-> RealStart(v),
                        ok |-> r.ok, ids |-> r.ids]
    /\ UNCHANGED <<trDims, trSplats, trEntries, trNumCommands, trCommands, trStart, trLevel,
                   trCode, trP, trStatus>>
    /\ UNCHANGED nonTreeVars

TreeNext ==
    \/ TreeOutOfRange
    \/ TreeSort
    \/ TreeRun
    \/ TreeRunPastEnd
    \/ \E v \in TreeVertices : TreeLookup(v)

(***************************************************************************)
(* Properties of the splat tree.                                           *)
(***************************************************************************)
\* Entry e belongs to the finest-level cell of vertex v or to an ancestor.
EntryCovers(e, v) ==
    LET up == Pow2(TreeMaxLevel(trDims) - e.level)
    IN  e.code = makeCode(v[1] \div up, v[2] \div up, v[3] \div up)

\* The splats with an entry at the cell of vertex v or at an ancestor of it.
ExpectedIds(v) ==
    { trEntries[k].splatId : k \in { j \in 1..Len(trEntries) : EntryCovers(trEntries[j], v) } }

\* The traversal from vertex v ends, on a -1, after visiting each expected
\* splat once and no other; with nothing to visit the start value is -1.
LookupRight(v, start, ok, ids) ==
    /\ ok
    /\ { ids[k] : k \in 1..Len(ids) } = ExpectedIds(v)
    /\ Len(ids) = Cardinality(ExpectedIds(v))
    /\ ExpectedIds(v) = {} => start = -1

\* C17: on a tree that initialize() has built, the traversal from
\* start[makeCode(x, y, z)] terminates and visits exactly the splats with
\* an entry at the vertex's cell or at one of its ancestors, each once, and
\* the start value is -1 when there is none; for every vertex of the grid.
C17_LookupVisitsCellAndAncestors ==
    /\ trLookup.done =>
          LookupRight(trLookup.vertex, trLookup.start, trLookup.ok, trLookup.ids)
    /\ (trStatus = "built" /\ ~trLookup.done) =>
          \A v \in TreeVertices :
              LET r == Traverse(trCommands, RealStart(v), Len(trCommands) + 1)
              IN  LookupRight(v, RealStart(v), r.ok, r.ids)

\* A lookup that visited a splat of the vertex's cell and then, through a
\* jump, a splat of an ancestor cell.
C17_Witness ==
    /\ trLookup.done
    /\ Len(trLookup.ids) = 2
    /\ \E j, k \in 1..Len(trEntries) :
          /\ trEntries[j].splatId = trLookup.ids[1]
          /\ trEntries[k].splatId = trLookup.ids[2]
          /\ trEntries[k].level < trEntries[j].level
    /\ \E i \in 1..Len(trCommands) : trCommands[i] <= -2

\* C18 as stated: a tree built from one splat has commands = [splatId, -1]
\* and every start entry points at that run.
C18_SingleRun ==
    (trStatus = "built" /\ Len(trSplats) = 1) =>
        /\ trCommands = <<0, -1>>
        /\ \A c \in DOMAIN trStart : trStart[c] = 0

\* Code c of the finest level lies in the cell of entry e.
CodeUnder(c, e) == c \div Pow2(3 * (TreeMaxLevel(trDims) - e.level)) = e.code

\* C18, amended: a tree built from one splat has one run [splatId, -1] for
\* each cell the splat covers at its level (at most eight, none when it
\* covers no vertex); the start entry of a code inside one of these cells
\* points at the run of that cell, and every other start entry is -1.
C18_OneRunPerCell ==
    (trStatus = "built" /\ Len(trSplats) = 1) =>
        /\ Len(trEntries) <= 8
        /\ trCommands = [k \in 1..(2 * Len(trEntries)) |-> IF k % 2 = 1 THEN 0 ELSE -1]
        /\ \A c \in DOMAIN trStart :
              IF \E k \in 1..Len(trEntries) : CodeUnder(c, trEntries[k])
              THEN \E k \in 1..Len(trEntries) :
                       CodeUnder(c, trEntries[k]) /\ trStart[c] = 2 * (k - 1)
              ELSE trStart[c] = -1

\* A tree built from one splat that covers eight cells one level above the
\* finest.
C18_Witness ==
    /\ trStatus = "built"
    /\ Len(trSplats) = 1
    /\ Len(trEntries) = 8
    /\ trEntries[1].level < TreeMaxLevel(trDims)

\* The octree cell (level, code) has entries.
HasRun(level, code) ==
    \E k \in 1..Len(trEntries) : trEntries[k].level = level /\ trEntries[k].code = code

\* The entries sorted before those of cell (level, code).
EntriesBefore(level, code) ==
    { k \in 1..Len(trEntries) :
          \/ trEntries[k].level < level
          \/ trEntries[k].level = level /\ trEntries[k].code > code }

\* Where the run of cell (level, code) begins in a list that holds, for
\* every cell sorted before it, its entries and one terminator or jump.
RunFirst(level, code) ==
    Cardinality(EntriesBefore(level, code))
    + Cardinality({ <<trEntries[k].level, trEntries[k].code>> : k \in EntriesBefore(level, code) })

\* The start value of cell (level, code): the beginning of its own run, or
\* of the run of its nearest ancestor that has one, or -1.
RECURSIVE CellStart(_, _)
CellStart(level, code) ==
    IF level < 0
    THEN -1
    ELSE IF HasRun(level, code)
         THEN RunFirst(level, code)
         ELSE CellStart(level - 1, code \div 8)

\* Index i of the command list is the first command of a run.
RunStartsAt(commands, i) ==
    /\ i >= 0 /\ i < Len(commands)
    /\ commands[i + 1] >= 0
    /\ i > 0 => commands[i] < 0

\* A pass of the loop over code that completes.
TreePass == trStatus = "loop" /\ trStatus' \in {"loop", "built"}

\* What a pass reads from start[code >> 3] and what it makes of it.
ReadsParent ==
    TreePass =>
        LET up == trStart[trCode \div 8]
        IN  /\ up = CellStart(trLevel - 1, trCode \div 8)
            /\ IF HasRun(trLevel, trCode)
               THEN /\ trStart'[trCode] = Len(trCommands)
                    /\ Len(trCommands') > Len(trCommands) + 1
                    /\ trCommands'[Len(trCommands')] = (IF up = -1 THEN -1 ELSE -2 - up)
                    /\ up # -1 => RunStartsAt(trCommands, up)
               ELSE /\ trStart'[trCode] = up
                    /\ trCommands' = trCommands

\* C35: in every pass of the command-list loop, start[code >> 3] holds the
\* start value of the parent cell one level up (-1 at level 0), not a
\* value written at the current level; a cell without entries gets that
\* value, and a cell with entries ends its run with -1 if the value is -1
\* and otherwise with -2 - up, where up is the first command of the run
\* the parent's start value designates.
C35_ReadsParentStart == [][ReadsParent]_vars

\* A built tree in which a cell of the finest level has a run, its parent
\* has none and its grandparent has one, so that the parent inherited its
\* start value and the cell's run jumps to it; the slot the cell read from
\* has since been overwritten.
C35_Witness ==
    /\ trStatus = "built"
    /\ \E code \in DOMAIN trStart :
          /\ HasRun(3, code) /\ ~HasRun(2, code \div 8) /\ HasRun(1, code \div 64)
          /\ trCommands[trStart[code] + 2] = -2 - CellStart(1, code \div 64)
          /\ trStart[code \div 8] # CellStart(2, code \div 8)

\* C36: in every pass of the command-list loop the scan
\* while (entries[q].level == level && entries[q].code == code) q++
\* stops at an index q < entries.size(), so that no entries[q] is read
\* past the end of the vector.
C36_ScanInsideEntries ==
    trStatus = "loop" => RunEnd(trEntries, trP, trLevel, trCode) < Len(trEntries)

IndexBits == 6

IndexMax == Pow2(IndexBits) - 1

\* Mutant of ConstructorAccepts: the bound is one too high.
ConstructorAccepts_OneMore(start, size) == size = 0 \/ start <= IndexMax - size + 2

\* The condition of the MLSGPU_ASSERT in SplatRange(scan, start, size).
ConstructorAccepts(start, size) == size = 0 \/ start <= IndexMax - size + 1

SplatRangeMake(scan, start, size) == [scan |-> scan, start |-> start, size |-> size]

SplatRangeScans == {0, 1}

\* Splat indices near 0, near the largest index and near the largest start
\* a range of the largest size can have.
SplatRangeIndices ==
    { 0, 1, IndexMax - RangeSizeMax + 1, IndexMax - RangeSizeMax + 2, IndexMax }

SplatRangeSizes == { 0, 1, RangeSizeMax - 1, RangeSizeMax }

NoCall == [op |-> "none", scan |-> 0, index |-> 0, size |-> 0, ok |-> TRUE,
           before |-> EmptyRange]

\* SplatRange(): the default constructor.
SplatRangeInit ==
    /\ srRange = EmptyRange
    /\ srCall = [NoCall EXCEPT !.op = "default"]

SplatRangeIdle ==
    /\ srRange = EmptyRange
    /\ srCall = NoCall

\* SplatRange(scan, splat)
SplatRangeConstructOne(scan, splat) ==
    /\ srRange' = SplatRangeOne(scan, splat)
    /\ srCall' = [op |-> "one", scan |-> scan, index |-> splat, size |-> 1, ok |-> TRUE,
                  before |-> srRange]
    /\ UNCHANGED nonSplatRangeVars

\* SplatRange(scan, start, size): the object, or std::out_of_range and no
\* object (srRange keeps the object made before).
SplatRangeConstruct(scan, start, size) ==
    /\ srRange' = IF ConstructorAccepts(start, size)
                  THEN SplatRangeMake(scan, start, size)
                  ELSE srRange
    /\ srCall' = [op |-> "construct", scan |-> scan, index |-> start, size |-> size,
                  ok |-> ConstructorAccepts(start, size), before |-> srRange]
    /\ UNCHANGED nonSplatRangeVars

\* append(scan, splat) on the object.
SplatRangeCallAppend(scan, splat) ==
    /\ srRange' = SplatRangeAppend(srRange, scan, splat)[2]
    /\ srCall' = [op |-> "append", scan |-> scan, index |-> splat, size |-> 0,
                  ok |-> SplatRangeAppend(srRange, scan, splat)[1], before |-> srRange]
    /\ UNCHANGED nonSplatRangeVars

\* The splat indices tried by append: the fixed ones, the one that follows
\* the range and the last one inside it.
AppendIndices ==
    SplatRangeIndices
    \cup (IF srRange.size > 0
          THEN { i \in {srRange.start + srRange.size, srRange.start + srRange.size - 1} :
                     i <= IndexMax }
          ELSE {})

SplatRangeNext ==
    \/ \E scan \in SplatRangeScans, splat \in SplatRangeIndices :
           SplatRangeConstructOne(scan, splat)
    \/ \E scan \in SplatRangeScans, start \in SplatRangeIndices, size \in SplatRangeSizes :
           SplatRangeConstruct(scan, start, size)
    \/ \E scan \in SplatRangeScans, splat \in AppendIndices :
           SplatRangeCallAppend(scan, splat)

(***************************************************************************)
(* Properties of SplatRange.                                               *)
(***************************************************************************)
\* The condition under which the range grows: it is empty, or the scan
\* matches and the splat follows the range, whose size is below the maximum.
AppendGrows(r, scan, splat) ==
    \/ r.size = 0
    \/ (r.scan = scan /\ splat = r.start + r.size /\ r.size < RangeSizeMax)

\* The range after a growing append: one more element, the splat last.
GrownBy(r, after, scan, splat) ==
    /\ after.size = r.size + 1
    /\ after.scan = scan
    /\ after.start + after.size - 1 = splat
    /\ r.size > 0 => after.start = r.start

AlreadyInside(r, scan, splat) ==
    r.size > 0 /\ r.scan = scan /\ r.start <= splat /\ splat < r.start + r.size

C20_NoIndexWrap ==
    /\ srRange.size > 0 =>
          /\ srRange.start >= 0
          /\ srRange.start + srRange.size - 1 <= IndexMax
          /\ srRange.size <= RangeSizeMax
    /\ (/\ srCall.op = "construct"
        /\ srCall.size > 0
        /\ srCall.index + srCall.size - 1 > IndexMax)
          => (~srCall.ok /\ srRange = srCall.before)

\* The constructor rejects its arguments while the object made before is a
\* range of the largest size that ends at the largest index.
C20_Witness ==
    /\ srCall.op = "construct"
    /\ ~srCall.ok
    /\ srRange.size = RangeSizeMax
    /\ srRange.start + srRange.size - 1 = IndexMax

(***************************************************************************)
(* FastBlobSet::makeBlobStream, fastPath and MyBlobStream::operator*       *)
(* (splat_set_impl.h, 405-436, 472-480, 856-872).  The blobs of the blob   *)
(* files are taken as already decoded; their coordinates are in units of   *)
(* internalBucketSize cells of a grid whose reference is the origin.       *)
(***************************************************************************)
MaxStreamBlobs == 2

\* C++ integer division and remainder: the quotient is truncated towards 0.
TruncDiv(a, b) == IF a >= 0 THEN a \div b ELSE -((-a) \div b)

TruncRem(a, b) == a - b * TruncDiv(a, b)

InternalSizes == {1, 2}

BucketSizes == {1, 2, 3, 4}

Spacings == {1, 2}

\* Grid references: the origin and one that is not.
References == { <<0, 0, 0>>, <<0, 1, 0>> }

\* Lower extents of the grid, in cells: multiples of every internal size,
\* multiples of some, and multiples of none but 1.
LowerExtents == { <<0, 0, 0>>, <<-2, 0, 2>>, <<-4, 2, 0>>, <<-1, 0, 0>>, <<2, -3, 4>> }

StoredLowers == { <<-3, -1, 0>>, <<-2, 0, 1>>, <<1, 2, -4>> }

StoredWidths == { <<0, 0, 0>>, <<1, 0, 1>> }

StoredBlob(k, lower, width) ==
    BlobInfo(IdOfNat(2 * k), IdOfNat(2 * k + 1), lower, [i \in Axes |-> lower[i] + width[i]])

StoredSeqs ==
    UNION { [1..n -> StoredLowers \X StoredWidths] : n \in 1..MaxStreamBlobs }

StreamInit ==
    /\ bsConfig \in [internalBucketSize : InternalSizes, boundingSpacing : Spacings,
                     bucketSize : BucketSizes, spacing : Spacings,
                     reference : References, lower : LowerExtents]
    /\ \E q \in StoredSeqs :
           bsStored = [k \in DOMAIN q |-> StoredBlob(k, q[k][1], q[k][2])]
    /\ bsPath = "none"
    /\ bsPos = 0
    /\ bsOut = <<>>

StreamIdle ==
    /\ bsConfig = [internalBucketSize |-> 1, boundingSpacing |-> 1, bucketSize |-> 1,
                   spacing |-> 1, reference |-> <<0, 0, 0>>, lower |-> <<0, 0, 0>>]
    /\ bsStored = <<>>
    /\ bsPath = "none"
    /\ bsPos = 0
    /\ bsOut = <<>>

\* Mutant of fastPath: the lower extents are not looked at.
fastPath_AnyExtent(cfg) ==
    /\ cfg.bucketSize % cfg.internalBucketSize = 0
    /\ cfg.boundingSpacing = cfg.spacing
    /\ \A i \in Axes : cfg.reference[i] = 0

\* FastBlobSet::fastPath, for internalBucketSize > 0 and bucketSize > 0.
fastPath(cfg) ==
    /\ ~(cfg.bucketSize % cfg.internalBucketSize # 0)
    /\ ~(cfg.boundingSpacing # cfg.spacing)
    /\ \A i \in Axes :
           ~(cfg.reference[i] # 0 \/ TruncRem(cfg.lower[i], cfg.internalBucketSize) # 0)

\* Mutant of DownDivider: the quotient is truncated towards zero.
DownDivider_Truncate(d, x) == TruncDiv(x, d)

\* DownDivider(d)(x): division by d > 0 rounding down.
DownDivider(d, x) == x \div d

\* MyBlobStream::MyBlobStream: offset[i]
StreamOffset(cfg) == [i \in Axes |-> TruncDiv(cfg.lower[i], cfg.internalBucketSize)]

\* MyBlobStream::operator*
StreamDeref(cfg, curBlob) ==
    LET d == cfg.bucketSize \div cfg.internalBucketSize
        offset == StreamOffset(cfg)
    IN  BlobInfo(curBlob.firstSplat, curBlob.lastSplat,
                 [i \in Axes |-> DownDivider(d, curBlob.lower[i] - offset[i])],
                 [i \in Axes |-> DownDivider(d, curBlob.upper[i] - offset[i])])

\* FastBlobSet::makeBlobStream
MakeBlobStream ==
    /\ bsPath = "none"
    /\ bsPath' = IF fastPath(bsConfig) THEN "fast" ELSE "scan"
    /\ UNCHANGED <<bsConfig, bsStored, bsPos, bsOut>>
    /\ UNCHANGED nonStreamVars

\* One blob read from MyBlobStream: operator* and operator++.
StreamYield ==
    /\ bsPath = "fast"
    /\ bsPos < Len(bsStored)
    /\ bsOut' = Append(bsOut, StreamDeref(bsConfig, bsStored[bsPos + 1]))
    /\ bsPos' = bsPos + 1
    /\ UNCHANGED <<bsConfig, bsStored, bsPath>>
    /\ UNCHANGED nonStreamVars

StreamNext == MakeBlobStream \/ StreamYield

\* n is a multiple of d.
MultipleOf(n, d) == \E k \in (-(n * n) - 1)..(n * n + 1) : n = k * d

\* C21: makeBlobStream replays the stored blobs iff bucketSize is a
\* multiple of internalBucketSize, the grid spacing is the bounding grid's,
\* the grid reference is (0,0,0) and every lower extent is a multiple of
\* internalBucketSize; otherwise it returns the base class's stream.
C21_FastPathIff ==
    bsPath # "none" =>
        /\ bsPath \in {"fast", "scan"}
        /\ bsPath = "fast" <=>
              /\ MultipleOf(bsConfig.bucketSize, bsConfig.internalBucketSize)
              /\ bsConfig.spacing = bsConfig.boundingSpacing
              /\ bsConfig.reference = <<0, 0, 0>>
              /\ \A i \in Axes : MultipleOf(bsConfig.lower[i], bsConfig.internalBucketSize)

\* The fast path taken for a grid with a negative lower extent and an
\* internal bucket size above 1.
C21_Witness ==
    /\ bsPath = "fast"
    /\ bsConfig.internalBucketSize > 1
    /\ \E i \in Axes : bsConfig.lower[i] < 0

\* The cells whose internal bucket is c.
CellsOfInternal(cfg, c) ==
    (c * cfg.internalBucketSize)..(c * cfg.internalBucketSize + cfg.internalBucketSize - 1)

\* q is the floor of a / d, for d > 0.
IsFloorOf(q, a, d) == q * d <= a /\ a < (q + 1) * d

\* Coordinate out is what the claim gives for the stored coordinate c on
\* axis i, and is the bucket, in buckets of bucketSize cells counted from
\* the grid's lower extent, of every cell inside internal bucket c.
CoordinateRight(cfg, i, c, out) ==
    /\ \E lk \in -8..8 :
           /\ lk * cfg.internalBucketSize = cfg.lower[i]
           /\ \E m \in 1..8 :
                  /\ m * cfg.internalBucketSize = cfg.bucketSize
                  /\ IsFloorOf(out, c - lk, m)
    /\ \A cell \in CellsOfInternal(cfg, c) :
           IsFloorOf(out, cell - cfg.lower[i], cfg.bucketSize)

\* C22: on the fast path every blob yielded keeps firstSplat and lastSplat
\* and has, on every axis, lower and upper equal to
\* floor((c - lo / internalBucketSize) / (bucketSize / internalBucketSize)),
\* the bucket a per-splat computation at bucketSize relative to the grid
\* gives, for negative as for positive coordinates.
C22_YieldedBlobsInGridBuckets ==
    bsPath = "fast" =>
        /\ Len(bsOut) = bsPos
        /\ \A k \in 1..Len(bsOut) :
              /\ bsOut[k].firstSplat = bsStored[k].firstSplat
              /\ bsOut[k].lastSplat = bsStored[k].lastSplat
              /\ \A i \in Axes :
                    /\ CoordinateRight(bsConfig, i, bsStored[k].lower[i], bsOut[k].lower[i])
                    /\ CoordinateRight(bsConfig, i, bsStored[k].upper[i], bsOut[k].upper[i])

\* A blob yielded with a negative coordinate that is not a multiple of the
\* divider, for a grid whose lower extent is not 0.
C22_Witness ==
    /\ bsPath = "fast"
    /\ bsConfig.bucketSize > bsConfig.internalBucketSize
    /\ \E k \in 1..Len(bsOut) : \E i \in Axes :
           /\ bsConfig.lower[i] # 0
           /\ bsStored[k].lower[i] - StreamOffset(bsConfig)[i] < 0
           /\ (bsStored[k].lower[i] - StreamOffset(bsConfig)[i])
                  % (bsConfig.bucketSize \div bsConfig.internalBucketSize) # 0

(***************************************************************************)
(* SequenceSet::MySplatStream::read (splat_set_impl.h, 73-106).            *)
(***************************************************************************)
MaxSeqSplats == 3

MaxSeqRanges == 2

MaxReadCount == 2

\* The sequences of the owner: finite and non-finite splats in any order.
SeqOwners == UNION { [1..n -> BOOLEAN] : n \in 0..MaxSeqSplats }

\* Range lists in ascending order without overlap; a range may be empty
\* and may reach past the end of the sequence.
SeqRangeLists ==
    { q \in UNION { [1..n -> (0..(MaxSeqSplats + 1)) \X (0..(MaxSeqSplats + 1))] :
                        n \in 0..MaxSeqRanges } :
        /\ \A k \in DOMAIN q : q[k][1] <= q[k][2]
        /\ \A k \in 1..(Len(q) - 1) : q[k][2] <= q[k + 1][1] }

NoRead == [count |-> 0, ret |-> 0, afterShort |-> FALSE, called |-> FALSE]

\* MySplatStream::MySplatStream: curRange = firstRange and, if there is a
\* range, cur = curRange->first.
SequenceInit ==
    /\ sqOwner \in SeqOwners
    /\ sqRanges \in SeqRangeLists
    /\ sqCurRange = 1
    /\ sqCur = IF sqRanges = <<>> THEN 0 ELSE sqRanges[1][1]
    /\ sqOut = <<>>
    /\ sqLast = NoRead

SequenceIdle ==
    /\ sqOwner = <<>>
    /\ sqRanges = <<>>
    /\ sqCurRange = 1
    /\ sqCur = 0
    /\ sqOut = <<>>
    /\ sqLast = NoRead

\* Mutant of SplatIsFinite: every splat passes.
SplatIsFinite_Always(owner, cur) == TRUE

\* (ownerFirst + cur)->isFinite()
SplatIsFinite(owner, cur) == owner[cur + 1]

\* The inner loop (86-97): [cur, count, ids written].
RECURSIVE ReadInner(_, _, _, _, _)
ReadInner(owner, cur, end, count, ids) ==
    IF cur < end /\ count > 0
    THEN IF SplatIsFinite(owner, cur)
         THEN ReadInner(owner, cur + 1, end, count - 1, Append(ids, cur))
         ELSE ReadInner(owner, cur + 1, end, count, ids)
    ELSE [cur |-> cur, count |-> count, ids |-> ids]

\* The outer loop (79-104): [curRange, cur, count, ids written].
RECURSIVE ReadOuter(_, _, _, _, _, _)
ReadOuter(owner, ranges, curRange, cur, count, ids) ==
    IF count > 0 /\ curRange # Len(ranges) + 1
    THEN LET ownerSize == Len(owner)
             end == IF ownerSize < ranges[curRange][2] THEN ownerSize
                    ELSE ranges[curRange][2]
             in == ReadInner(owner, cur, end, count, ids)
         IN  IF in.cur >= end
             THEN ReadOuter(owner, ranges, curRange + 1,
                            IF curRange + 1 # Len(ranges) + 1
                            THEN ranges[curRange + 1][1] ELSE in.cur,
                            in.count, in.ids)
             ELSE ReadOuter(owner, ranges, curRange, in.cur, in.count, in.ids)
    ELSE [curRange |-> curRange, cur |-> cur, count |-> count, ids |-> ids]

\* read(splats, splatIds, count)
SequenceRead(count) ==
    LET r == ReadOuter(sqOwner, sqRanges, sqCurRange, sqCur, count, <<>>)
    IN  /\ sqCurRange' = r.curRange
        /\ sqCur' = r.cur
        /\ sqOut' = sqOut \o r.ids
        /\ sqLast' = [count |-> count, ret |-> count - r.count,
                      afterShort |-> sqLast.afterShort
                                       \/ (sqLast.called /\ sqLast.ret < sqLast.count),
                      called |-> TRUE]
        /\ UNCHANGED <<sqOwner, sqRanges>>
        /\ UNCHANGED nonSequenceVars

SequenceNext == \E count \in 0..MaxReadCount : SequenceRead(count)

\* The ids of the finite splats inside the requested ranges, clamped to the
\* length of the sequence.
RequestedFinite ==
    { id \in 0..(Len(sqOwner) - 1) :
        /\ sqOwner[id + 1]
        /\ \E k \in DOMAIN sqRanges : sqRanges[k][1] <= id /\ id < sqRanges[k][2] }

\* C25: read outputs only finite splats of the requested ranges, with their
\* ids, in ascending id order and never twice; it returns the number it
\* wrote, fewer than count only when every finite splat of the ranges has
\* been output, and 0 in every call after that.
C25_ReadFiniteInOrder ==
    /\ \A k \in 1..Len(sqOut) : sqOut[k] \in RequestedFinite
    /\ \A j, k \in 1..Len(sqOut) : j < k => sqOut[j] < sqOut[k]
    /\ sqLast.ret <= sqLast.count
    /\ sqLast.called /\ sqLast.ret < sqLast.count =>
          { sqOut[k] : k \in 1..Len(sqOut) } = RequestedFinite
    /\ sqLast.afterShort => sqLast.ret = 0

\* A call that returns 0 after a short return, on a stream of two ranges
\* that gave two splats and skipped a non-finite one in between.
C25_Witness ==
    /\ sqLast.afterShort
    /\ sqLast.count > 0
    /\ Len(sqRanges) = 2
    /\ Len(sqOut) >= 2
    /\ \E id \in 0..(Len(sqOwner) - 1) :
           ~sqOwner[id + 1] /\ sqOut[1] < id /\ id < sqOut[Len(sqOut)]
           /\ \E k \in DOMAIN sqRanges : sqRanges[k][1] <= id /\ id < sqRanges[k][2]

(***************************************************************************)
(* FileSet::FileRangeIterator and FileSet::ReaderThread::operator()        *)
(* (splat_set_impl.h, 109-291).  A splat id is fileId << scanIdShift plus  *)
(* the index of the splat in its file.                                     *)
(***************************************************************************)
\* Stands for FileSet::scanIdShift.
ScanIdShift == 3

\* Stands for maxChunk = buffer.size() / 8, in bytes.
MaxChunk == 4

MaxReaderFiles == 2

MaxReaderRanges == 2

FileIdOf(id) == id \div Pow2(ScanIdShift)

\* id & splatIdMask
FileIndexOf(id) == id % Pow2(ScanIdShift)

\* splat_id(fileId) << scanIdShift
FileBase(fileId) == fileId * Pow2(ScanIdShift)

ReaderFileKinds ==
    { [size |-> 0, vertexSize |-> 1], [size |-> 3, vertexSize |-> 1],
      [size |-> 2, vertexSize |-> 2], [size |-> 3, vertexSize |-> 2],
      [size |-> 2, vertexSize |-> MaxChunk + 1] }

ReaderFileLists == UNION { [1..n -> ReaderFileKinds] : n \in 1..MaxReaderFiles }

\* Ends of the id ranges: inside, at the end of, and past the files.
ReaderIds ==
    { FileBase(0), FileBase(0) + 1, FileBase(0) + 3, FileBase(1), FileBase(1) + 2,
      FileBase(MaxReaderFiles) }

\* Range lists in ascending order without overlap.
ReaderRangeLists ==
    { q \in UNION { [1..n -> ReaderIds \X ReaderIds] : n \in 0..MaxReaderRanges } :
        /\ \A k \in DOMAIN q : q[k][1] <= q[k][2]
        /\ \A k \in 1..(Len(q) - 1) : q[k][2] <= q[k + 1][1] }

\* Mutant of IterRefill: an index past the end of its file is not moved to
\* the next file.
RECURSIVE IterRefill_NoFileSkip(_, _, _)
IterRefill_NoFileSkip(files, ranges, it) ==
    IF it.curRange = Len(ranges) + 1
    THEN it
    ELSE LET fileId == FileIdOf(it.first)
         IN  IF it.first >= ranges[it.curRange][2] \/ fileId >= Len(files)
             THEN IF it.curRange + 1 = Len(ranges) + 1
                  THEN [curRange |-> it.curRange + 1, first |-> 0]
                  ELSE IterRefill_NoFileSkip(files, ranges,
                                             [curRange |-> it.curRange + 1,
                                              first |-> ranges[it.curRange + 1][1]])
             ELSE it

\* FileRangeIterator::refill
RECURSIVE IterRefill(_, _, _)
IterRefill(files, ranges, it) ==
    IF it.curRange = Len(ranges) + 1
    THEN it
    ELSE LET fileId == FileIdOf(it.first)
         IN  IF it.first >= ranges[it.curRange][2] \/ fileId >= Len(files)
             THEN IF it.curRange + 1 = Len(ranges) + 1
                  THEN [curRange |-> it.curRange + 1, first |-> 0]
                  ELSE IterRefill(files, ranges,
                                  [curRange |-> it.curRange + 1,
                                   first |-> ranges[it.curRange + 1][1]])
             ELSE IF FileIndexOf(it.first) >= files[fileId + 1].size
                  THEN IterRefill(files, ranges, [it EXCEPT !.first = FileBase(fileId + 1)])
                  ELSE it

\* FileRangeIterator(owner, firstRange, lastRange, maxSize)
IterBegin(files, ranges) ==
    IterRefill(files, ranges,
               [curRange |-> 1, first |-> IF ranges = <<>> THEN 0 ELSE ranges[1][1]])

\* FileRangeIterator::equal against the end iterator
IterAtEnd(ranges, it) == it.curRange = Len(ranges) + 1

\* FileRangeIterator::increment
IterIncrement(files, ranges, it, maxSize) ==
    LET vertexSize == files[FileIdOf(it.first) + 1].vertexSize
        stepped == it.first + (maxSize \div vertexSize)
    IN  IterRefill(files, ranges,
                   [it EXCEPT !.first = Min2(stepped, ranges[it.curRange][2])])

\* Mutant of IterDereference: the range is not cut at the end of the id range.
IterDereference_WholeFile(files, ranges, it, maxSize) ==
    LET fileId == FileIdOf(it.first)
        start == FileIndexOf(it.first)
        end == files[fileId + 1].size
        vertexSize == files[fileId + 1].vertexSize
    IN  [fileId |-> fileId, start |-> start,
         end |-> IF (end - start) * vertexSize > maxSize
                 THEN start + (maxSize \div vertexSize) ELSE end]

\* FileRangeIterator::dereference
IterDereference(files, ranges, it, maxSize) ==
    LET fileId == FileIdOf(it.first)
        start == FileIndexOf(it.first)
        size == files[fileId + 1].size
        second == ranges[it.curRange][2]
        end == IF FileIdOf(second) = fileId THEN Min2(size, FileIndexOf(second)) ELSE size
        vertexSize == files[fileId + 1].vertexSize
    IN  [fileId |-> fileId, start |-> start,
         end |-> IF (end - start) * vertexSize > maxSize
                 THEN start + (maxSize \div vertexSize) ELSE end]

NoFileRange == [fileId |-> 0, start |-> 0, end |-> 0]

ReaderInit ==
    /\ rdFiles \in ReaderFileLists
    /\ rdRanges \in ReaderRangeLists
    /\ rdCur = IterBegin(rdFiles, rdRanges)
    /\ rdNext = IterBegin(rdFiles, rdRanges)
    /\ rdRange = NoFileRange
    /\ rdChunk = NoFileRange
    /\ rdHandle = -1
    /\ rdPc = "loop"
    /\ rdQueue = <<>>
    /\ rdStops = 0
    /\ rdReads = 0
    /\ rdReadFrom = 0

ReaderIdle ==
    /\ rdFiles = <<>>
    /\ rdRanges = <<>>
    /\ rdCur = [curRange |-> 1, first |-> 0]
    /\ rdNext = [curRange |-> 1, first |-> 0]
    /\ rdRange = NoFileRange
    /\ rdChunk = NoFileRange
    /\ rdHandle = -1
    /\ rdPc = "idle"
    /\ rdQueue = <<>>
    /\ rdStops = 0
    /\ rdReads = 0
    /\ rdReadFrom = 0

\* Mutant of MergeLoop: the size of the merged read is not limited.
RECURSIVE MergeLoop_NoLimit(_, _, _, _, _, _)
MergeLoop_NoLimit(files, ranges, next, range, start, end) ==
    IF IterAtEnd(ranges, next)
    THEN [next |-> next, end |-> end]
    ELSE LET nextRange == IterDereference(files, ranges, next, MaxChunk)
             vertexSize == files[range.fileId + 1].vertexSize
         IN  IF \/ nextRange.start < end
                \/ nextRange.fileId # range.fileId
                \/ (nextRange.start - end) * vertexSize > MaxChunk \div 2
             THEN [next |-> next, end |-> end]
             ELSE MergeLoop_NoLimit(files, ranges,
                                    IterIncrement(files, ranges, next, MaxChunk),
                                    range, start, nextRange.end)

\* The request merging loop (248-258): [next, end].
RECURSIVE MergeLoop(_, _, _, _, _, _)
MergeLoop(files, ranges, next, range, start, end) ==
    IF IterAtEnd(ranges, next)
    THEN [next |-> next, end |-> end]
    ELSE LET nextRange == IterDereference(files, ranges, next, MaxChunk)
             vertexSize == files[range.fileId + 1].vertexSize
         IN  IF \/ nextRange.start < end
                \/ nextRange.fileId # range.fileId
                \/ (nextRange.start - end) * vertexSize > MaxChunk \div 2
                \/ (nextRange.end - start) * vertexSize > MaxChunk
             THEN [next |-> next, end |-> end]
             ELSE MergeLoop(files, ranges, IterIncrement(files, ranges, next, MaxChunk),
                            range, start, nextRange.end)

\* The file of *cur needs a handle and its vertices are larger than maxChunk.
ReaderTooLarge ==
    LET range == IterDereference(rdFiles, rdRanges, rdCur, MaxChunk)
    IN  /\ rdHandle = -1 \/ range.fileId # rdHandle
        /\ rdFiles[range.fileId + 1].vertexSize > MaxChunk

\* throw std::runtime_error("Far too many bytes per vertex")
ReaderThrow ==
    /\ rdPc = "loop"
    /\ ~IterAtEnd(rdRanges, rdCur)
    /\ ReaderTooLarge
    /\ rdPc' = "failed"
    /\ UNCHANGED <<rdFiles, rdRanges, rdCur, rdNext, rdRange, rdChunk, rdHandle, rdQueue,
                   rdStops, rdReads, rdReadFrom>>
    /\ UNCHANGED nonReaderVars

\* One pass of the outer loop up to the read: handle, merging, allocate,
\* readRaw (228-266).
ReaderLoad ==
    /\ rdPc = "loop"
    /\ ~IterAtEnd(rdRanges, rdCur)
    /\ ~ReaderTooLarge
    /\ LET range == IterDereference(rdFiles, rdRanges, rdCur, MaxChunk)
           merged == MergeLoop(rdFiles, rdRanges,
                               IterIncrement(rdFiles, rdRanges, rdCur, MaxChunk),
                               range, range.start, range.end)
       IN  /\ rdRange' = range
           /\ rdHandle' = range.fileId
           /\ rdNext' = merged.next
           /\ rdChunk' = [fileId |-> range.fileId, start |-> range.start, end |-> merged.end]
    /\ rdReads' = rdReads + 1
    /\ rdReadFrom' = Len(rdQueue)
    /\ rdPc' = "push"
    /\ UNCHANGED <<rdFiles, rdRanges, rdCur, rdQueue, rdStops>>
    /\ UNCHANGED nonReaderVars

\* One pass of the push loop (270-285).
ReaderPush ==
    /\ rdPc = "push"
    /\ LET first == rdRange.start + FileBase(rdRange.fileId)
           cur == IterIncrement(rdFiles, rdRanges, rdCur, MaxChunk)
           item == [first |-> first,
                    last |-> first + (rdRange.end - rdRange.start),
                    ptr |-> (rdRange.start - rdChunk.start)
                              * rdFiles[rdRange.fileId + 1].vertexSize,
                    alloc |-> cur = rdNext]
       IN  /\ rdCur' = cur
           /\ rdRange' = IF cur # rdNext
                         THEN IterDereference(rdFiles, rdRanges, cur, MaxChunk)
                         ELSE rdRange
           /\ rdQueue' = Append(rdQueue, item)
           /\ rdPc' = IF cur # rdNext THEN "push" ELSE "loop"
    /\ UNCHANGED <<rdFiles, rdRanges, rdNext, rdChunk, rdHandle, rdStops, rdReads, rdReadFrom>>
    /\ UNCHANGED nonReaderVars

\* outQueue.stop()
ReaderStop ==
    /\ rdPc = "loop"
    /\ IterAtEnd(rdRanges, rdCur)
    /\ rdStops' = rdStops + 1
    /\ rdPc' = "done"
    /\ UNCHANGED <<rdFiles, rdRanges, rdCur, rdNext, rdRange, rdChunk, rdHandle, rdQueue,
                   rdReads, rdReadFrom>>
    /\ UNCHANGED nonReaderVars

ReaderNext == ReaderThrow \/ ReaderLoad \/ ReaderPush \/ ReaderStop

\* The file ranges the iterator yields from `it` on, up to the end or to a
\* file whose vertices are larger than maxChunk.
RECURSIVE RangesFrom(_, _, _)
RangesFrom(files, ranges, it) ==
    IF IterAtEnd(ranges, it) THEN <<>>
    ELSE IF files[FileIdOf(it.first) + 1].vertexSize > MaxChunk THEN <<>>
    ELSE <<IterDereference(files, ranges, it, MaxChunk)>>
             \o RangesFrom(files, ranges, IterIncrement(files, ranges, it, MaxChunk))

\* The items pushed so far are the file ranges of the iterator, in its
\* order; they are splats of the files inside the requested id ranges, in
\* ascending id order; the last one lies in the chunk read for it (checked
\* until the next chunk is read); stop() has been
\* called once when the thread is done and not before, with every item
\* pushed.
ReaderSafe ==
    LET expected == RangesFrom(rdFiles, rdRanges, IterBegin(rdFiles, rdRanges))
    IN  /\ Len(rdQueue) <= Len(expected)
        /\ \A k \in 1..Len(rdQueue) :
              /\ rdQueue[k].first = FileBase(expected[k].fileId) + expected[k].start
              /\ rdQueue[k].last = FileBase(expected[k].fileId) + expected[k].end
              /\ rdQueue[k].first < rdQueue[k].last
              /\ FileIndexOf(rdQueue[k].last - 1) < rdFiles[expected[k].fileId + 1].size
              /\ \E r \in DOMAIN rdRanges :
                    rdRanges[r][1] <= rdQueue[k].first /\ rdQueue[k].last <= rdRanges[r][2]
        /\ \A j, k \in 1..Len(rdQueue) : j < k => rdQueue[j].last <= rdQueue[k].first
        /\ (rdQueue # <<>> /\ (rdPc \in {"loop", "done"} \/ ~rdQueue[Len(rdQueue)].alloc)) =>
              LET item == rdQueue[Len(rdQueue)]
                  vertexSize == rdFiles[rdChunk.fileId + 1].vertexSize
              IN  /\ FileIdOf(item.first) = rdChunk.fileId
                  /\ item.ptr = (FileIndexOf(item.first) - rdChunk.start) * vertexSize
                  /\ item.ptr >= 0
                  /\ item.ptr + (item.last - item.first) * vertexSize
                        <= (rdChunk.end - rdChunk.start) * vertexSize
                  /\ (rdChunk.end - rdChunk.start) * vertexSize <= MaxChunk
        /\ rdStops = (IF rdPc = "done" THEN 1 ELSE 0)
        /\ rdPc = "done" => Len(rdQueue) = Len(expected)

\* C26: the reader thread pushes its items in the order of the file ranges
\* it iterates, ascending in splat id, each item's [first, last) being the
\* ids of its range, across merged reads too, and calls outQueue.stop()
\* once, after the last item; the items pushed and the file ranges still to
\* come always add up to the file ranges of the whole iteration.
C26_ItemsInOrderThenStop ==
    /\ ReaderSafe
    /\ rdPc # "failed" =>
          Len(rdQueue) + Len(RangesFrom(rdFiles, rdRanges, rdCur))
              = Len(RangesFrom(rdFiles, rdRanges, IterBegin(rdFiles, rdRanges)))
    /\ rdPc = "push" => ~IterAtEnd(rdRanges, rdCur)

\* The thread has stopped after a merged read of two ranges and one more
\* read.
C26_Witness ==
    /\ rdPc = "done"
    /\ Len(rdQueue) >= 3
    /\ \E k \in 1..(Len(rdQueue) - 1) : ~rdQueue[k].alloc
    /\ rdQueue[Len(rdQueue)].alloc

\* The bytes of the last read: vertexSize * (end - start).
ChunkBytes == (rdChunk.end - rdChunk.start) * rdFiles[rdChunk.fileId + 1].vertexSize

\* The bytes of an item of the last read.
ItemBytes(item) == (item.last - item.first) * rdFiles[rdChunk.fileId + 1].vertexSize

\* The items pushed for the last read.
ReadItems == { k \in 1..Len(rdQueue) : k > rdReadFrom }

\* C38: the bytes of every read, merged or not, are at most maxChunk and
\* lie in the file; every item pushed for the read points at a sub-range
\* of the chunk allocated for it, at the place of its splats; and the
\* allocation is attached to one item of the read, the last one pushed
\* for it, so that the items with an allocation are as many as the reads
\* whose items have all been pushed.
C38_ItemsInsideChunk ==
    /\ rdReads > 0 =>
          /\ ChunkBytes <= MaxChunk
          /\ rdChunk.start < rdChunk.end
          /\ rdChunk.end <= rdFiles[rdChunk.fileId + 1].size
          /\ \A k \in ReadItems :
                 /\ FileIdOf(rdQueue[k].first) = rdChunk.fileId
                 /\ rdQueue[k].ptr
                       = (FileIndexOf(rdQueue[k].first) - rdChunk.start)
                             * rdFiles[rdChunk.fileId + 1].vertexSize
                 /\ rdQueue[k].ptr >= 0
                 /\ ItemBytes(rdQueue[k]) > 0
                 /\ rdQueue[k].ptr + ItemBytes(rdQueue[k]) <= ChunkBytes
                 /\ rdQueue[k].alloc <=> (k = Len(rdQueue) /\ rdPc # "push")
          /\ rdPc # "push" => ReadItems # {}
    /\ Cardinality({ k \in 1..Len(rdQueue) : rdQueue[k].alloc })
          = (IF rdPc = "push" THEN rdReads - 1 ELSE rdReads)
    /\ rdReadFrom <= Len(rdQueue)

\* A read of two merged ranges has been pushed, after an earlier read: the
\* first item of the read has no allocation and the second, which does not
\* begin at the start of the chunk, has it.
C38_Witness ==
    /\ rdPc = "loop"
    /\ rdReads >= 2
    /\ Len(rdQueue) = rdReadFrom + 2
    /\ rdQueue[Len(rdQueue)].ptr > 0
    /\ rdQueue[Len(rdQueue)].alloc
    /\ ~rdQueue[Len(rdQueue) - 1].alloc

(***************************************************************************)
(* bucketRecurse: the choice of microSize and macroLevels for a cell that  *)
(* fails the base case (bucket.cpp, 489-508), for cells of any size.       *)
(***************************************************************************)
\* Largest number of cells along an axis of the cell.
MaxMicroDim == 300

\* A maxSplit between the small ones and the largest std::size_t.
MidSplit == 1000

MicroDimChoices == {1, 2, 3, 8, 64, 128, MaxMicroDim}

MaxSplitChoices == {1, 2, 8, MidSplit, SizeMax}

MicroInit ==
    /\ msDims \in [Axes -> MicroDimChoices]
    /\ msMaxSplit \in MaxSplitChoices
    /\ msShift = 0
    /\ msLevels = 0
    /\ msPc = "split"

MicroIdle ==
    /\ msDims = [i \in Axes |-> 1]
    /\ msMaxSplit = 1
    /\ msShift = 0
    /\ msLevels = 0
    /\ msPc = "idle"

\* bucketRecurse: the do-while loop that chooses microSize and microShift.
MicroChoose ==
    /\ msPc = "split"
    /\ msShift' = ChooseMicroShift(msDims, msMaxSplit, 0)
    /\ msPc' = "micro"
    /\ UNCHANGED <<msDims, msMaxSplit, msLevels>>
    /\ UNCHANGED nonMicroVars

\* bucketRecurse: the while loop that chooses macroLevels.
MacroChoose ==
    /\ msPc = "micro"
    /\ msLevels' = ChooseMacroLevels(Pow2(msShift),
                                     Max2(Max2(msDims[1], msDims[2]), msDims[3]), 1)
    /\ msPc' = "done"
    /\ UNCHANGED <<msDims, msMaxSplit, msShift>>
    /\ UNCHANGED nonMicroVars

MicroNext == MicroChoose \/ MacroChoose

\* The number of microblocks of side m that tile a cell of the given
\* dimensions, and the same held at the largest std::size_t.
TilingBlocks(dims, m) ==
    ((dims[1] + m - 1) \div m) * ((dims[2] + m - 1) \div m) * ((dims[3] + m - 1) \div m)

SaturatedBlocks(dims, m) ==
    IF TilingBlocks(dims, m) > SizeMax THEN SizeMax ELSE TilingBlocks(dims, m)

\* The octree root of msLevels levels over microblocks of side 2^msShift
\* covers the cell.
RootCovers == \A i \in Axes : Pow2(msShift + msLevels - 1) >= msDims[i]

MaxYield == 8

\* One file or two.
IterFileLists == [{1} -> ReaderFileKinds] \cup [{1, 2} -> ReaderFileKinds]

FileIterInit ==
    /\ fiFiles \in IterFileLists
    /\ fiRanges \in ReaderRangeLists
    /\ fiMaxSize \in {1, 2, MaxChunk}
    /\ fiCur = IterBegin(fiFiles, fiRanges)
    /\ fiYielded = <<>>
    /\ fiPc = "iterate"

FileIterIdle ==
    /\ fiFiles = <<>>
    /\ fiRanges = <<>>
    /\ fiMaxSize = 1
    /\ fiCur = [curRange |-> 1, first |-> 0]
    /\ fiYielded = <<>>
    /\ fiPc = "idle"

\* *it; ++it
FileIterYield ==
    /\ fiPc = "iterate"
    /\ ~IterAtEnd(fiRanges, fiCur)
    /\ Len(fiYielded) < MaxYield
    /\ fiYielded' = Append(fiYielded, IterDereference(fiFiles, fiRanges, fiCur, fiMaxSize))
    /\ fiCur' = IterIncrement(fiFiles, fiRanges, fiCur, fiMaxSize)
    /\ UNCHANGED <<fiFiles, fiRanges, fiMaxSize, fiPc>>
    /\ UNCHANGED nonFileIterVars

\* it == last
FileIterEnd ==
    /\ fiPc = "iterate"
    /\ IterAtEnd(fiRanges, fiCur)
    /\ fiPc' = "done"
    /\ UNCHANGED <<fiFiles, fiRanges, fiMaxSize, fiCur, fiYielded>>
    /\ UNCHANGED nonFileIterVars

FileIterNext == FileIterYield \/ FileIterEnd

\* The ids of the ranges that name a splat of a file.
ExistingIds ==
    { id \in 0..FileBase(MaxReaderFiles) :
        /\ \E r \in DOMAIN fiRanges : fiRanges[r][1] <= id /\ id < fiRanges[r][2]
        /\ FileIdOf(id) < Len(fiFiles)
        /\ FileIndexOf(id) < fiFiles[FileIdOf(id) + 1].size }

\* The ids of FileRange r.
FileRangeIds(r) == { FileBase(r.fileId) + i : i \in r.start..(r.end - 1) }

\* The FileRanges obtained so far are non-empty, each inside one file and
\* of at most maxSize bytes, ascending without overlap, and name ids of
\* the ranges that exist; there are no more of them than such ids; and at
\* the end they name all of them.
IterationRight ==
    /\ \A k \in 1..Len(fiYielded) :
          LET r == fiYielded[k]
          IN  /\ r.fileId < Len(fiFiles)
              /\ r.start < r.end
              /\ r.end <= fiFiles[r.fileId + 1].size
              /\ (r.end - r.start) * fiFiles[r.fileId + 1].vertexSize <= fiMaxSize
              /\ FileRangeIds(r) \subseteq ExistingIds
    /\ \A j, k \in 1..Len(fiYielded) :
          j < k => FileBase(fiYielded[j].fileId) + fiYielded[j].end
                      <= FileBase(fiYielded[k].fileId) + fiYielded[k].start
    /\ Len(fiYielded) <= Cardinality(ExistingIds)
    /\ fiPc = "done" =>
          UNION { FileRangeIds(fiYielded[k]) : k \in 1..Len(fiYielded) } = ExistingIds

\* C39 as stated: taking a FileRangeIterator from begin to end ends and
\* gives non-empty FileRanges, each inside one file and of at most maxSize
\* bytes, in ascending order, that name every existing splat of the id
\* ranges once and nothing else.
C39_IterationCoversRanges == IterationRight

\* No vertex of a file is larger than maxSize.
VerticesFit == \A f \in DOMAIN fiFiles : fiFiles[f].vertexSize <= fiMaxSize

\* C39, amended: the same, when no file has vertices larger than maxSize.
C39_IterationCoversRangesThatFit == VerticesFit => IterationRight

\* An iteration that has ended after FileRanges in two files, one of them
\* cut to maxSize, over id ranges that also name ids without a splat.
C39_Witness ==
    /\ fiPc = "done"
    /\ VerticesFit
    /\ Len(fiYielded) >= 3
    /\ \E j, k \in 1..Len(fiYielded) : fiYielded[j].fileId # fiYielded[k].fileId
    /\ \E k \in 1..(Len(fiYielded) - 1) :
          /\ fiYielded[k].fileId = fiYielded[k + 1].fileId
          /\ fiYielded[k].end = fiYielded[k + 1].start
    /\ \E r \in DOMAIN fiRanges :
          \E id \in fiRanges[r][1]..(fiRanges[r][2] - 1) : id \notin ExistingIds

(***************************************************************************)
(* FastBlobSet::computeBlobs and makeBoundingGrid (splat_set_impl.h,       *)
(* 770-854), followed by fastPath on the bounding grid.  Positions and     *)
(* spacings are whole numbers of one unit.                                 *)
(***************************************************************************)
\* Largest number of splats in the set.
MaxBoundSplats == 2

\* Largest k for which fastPath(boundingGrid, k * bucketSize) is called.
MaxMultiple == 3

BoundPositions == { <<-7, -4, 0>>, <<-1, 3, 5>>, <<0, 0, 0>>, <<6, -2, 1>> }

BoundSplatKinds == [position : BoundPositions, radius : {1}, finite : BOOLEAN]

NoGrid == [spacing |-> 0, reference |-> ZeroVec, lower |-> ZeroVec, upper |-> ZeroVec]

\* The bounding box computeBlobsRange leaves: that of the finite splats.
RECURSIVE FiniteBbox(_, _)
FiniteBbox(splats, n) ==
    IF n = 0
    THEN EmptyBbox
    ELSE IF splats[n].finite
         THEN BboxAddSplat(FiniteBbox(splats, n - 1), splats[n])
         ELSE FiniteBbox(splats, n - 1)

\* The number of finite splats.
FiniteCount(splats) == Cardinality({ k \in DOMAIN splats : splats[k].finite })

\* Mutant of AlignedLower: the extent is left where the box begins.
AlignedLower_Unaligned(lo, bucketSize) == lo

\* lo = divDown(lo, bucketSize) * bucketSize
AlignedLower(lo, bucketSize) == DownDivider(bucketSize, lo) * bucketSize

\* makeBoundingGrid for a box with a splat in it: RoundDown of
\* bboxMin / spacing, aligned, and RoundUp of bboxMax / spacing.
makeBoundingGrid(spacing, bucketSize, bbox) ==
    [spacing |-> spacing,
     reference |-> ZeroVec,
     lower |-> [i \in Axes |-> AlignedLower(bbox.bboxMin[i] \div spacing, bucketSize)],
     upper |-> [i \in Axes |-> -((-bbox.bboxMax[i]) \div spacing)]]

BoundingInit ==
    /\ bgSplats \in UNION { [1..n -> BoundSplatKinds] : n \in 0..MaxBoundSplats }
    /\ bgSpacing \in {1, 2, 3}
    /\ bgBucketSize \in {1, 2, 3}
    /\ bgInternal = 0
    /\ bgNSplats = 0
    /\ bgGrid = NoGrid
    /\ bgFast = <<>>
    /\ bgPc = "new"

BoundingIdle ==
    /\ bgSplats = <<>>
    /\ bgSpacing = 1
    /\ bgBucketSize = 1
    /\ bgInternal = 0
    /\ bgNSplats = 0
    /\ bgGrid = NoGrid
    /\ bgFast = <<>>
    /\ bgPc = "idle"

\* computeBlobs for a set without a finite splat: makeBoundingGrid throws
\* std::runtime_error("Must be at least one splat").
ComputeBlobsEmpty ==
    /\ bgPc = "new"
    /\ ~FiniteBbox(bgSplats, Len(bgSplats)).has
    /\ bgInternal' = bgBucketSize
    /\ bgNSplats' = FiniteCount(bgSplats)
    /\ bgPc' = "error"
    /\ UNCHANGED <<bgSplats, bgSpacing, bgBucketSize, bgGrid, bgFast>>
    /\ UNCHANGED nonBoundingVars

\* computeBlobs for a set with a finite splat.
ComputeBlobs ==
    /\ bgPc = "new"
    /\ FiniteBbox(bgSplats, Len(bgSplats)).has
    /\ bgInternal' = bgBucketSize
    /\ bgNSplats' = FiniteCount(bgSplats)
    /\ bgGrid' = makeBoundingGrid(bgSpacing, bgBucketSize, FiniteBbox(bgSplats, Len(bgSplats)))
    /\ bgPc' = "built"
    /\ UNCHANGED <<bgSplats, bgSpacing, bgBucketSize, bgFast>>
    /\ UNCHANGED nonBoundingVars

\* The arguments of fastPath for the bounding grid and bucket size k * bucketSize.
BoundingConfig(k) ==
    [internalBucketSize |-> bgInternal, boundingSpacing |-> bgGrid.spacing,
     bucketSize |-> k * bgBucketSize, spacing |-> bgGrid.spacing,
     reference |-> bgGrid.reference, lower |-> bgGrid.lower]

\* fastPath(boundingGrid, k * bucketSize), for k = 1, 2, ...
BoundingFastPath ==
    /\ bgPc = "built"
    /\ Len(bgFast) < MaxMultiple
    /\ bgFast' = Append(bgFast, fastPath(BoundingConfig(Len(bgFast) + 1)))
    /\ UNCHANGED <<bgSplats, bgSpacing, bgBucketSize, bgInternal, bgNSplats, bgGrid, bgPc>>
    /\ UNCHANGED nonBoundingVars

BoundingNext == ComputeBlobsEmpty \/ ComputeBlobs \/ BoundingFastPath

\* C40: the bounding grid computeBlobs builds has reference (0,0,0), the
\* given spacing and lower extents that are multiples of bucketSize, at or
\* below the box, also when negative; fastPath on it is true for every
\* bucket size k * bucketSize, k >= 1; and computeBlobs ends with an error
\* and without a grid exactly when the set has no finite splat.
C40_BoundingGridOnFastPath ==
    /\ bgPc = "built" =>
          /\ FiniteCount(bgSplats) > 0
          /\ bgGrid.reference = <<0, 0, 0>>
          /\ bgGrid.spacing = bgSpacing
          /\ \A i \in Axes :
                 /\ \E m \in -8..8 : bgGrid.lower[i] = m * bgBucketSize
                 /\ bgGrid.lower[i] * bgSpacing
                       <= FiniteBbox(bgSplats, Len(bgSplats)).bboxMin[i]
                 /\ bgGrid.upper[i] * bgSpacing
                       >= FiniteBbox(bgSplats, Len(bgSplats)).bboxMax[i]
                 /\ bgGrid.lower[i] < bgGrid.upper[i]
          /\ \A k \in 1..Len(bgFast) : bgFast[k]
          /\ \A k \in 1..MaxMultiple : fastPath(BoundingConfig(k))
    /\ bgPc = "error" => (FiniteCount(bgSplats) = 0 /\ bgGrid = NoGrid)
    /\ bgPc \in {"built", "error"} => bgInternal = bgBucketSize

\* fastPath has been called for k = 1 and k = 2 on a bounding grid with a
\* negative lower extent that the alignment moved down, for a bucket size
\* above 1, in a set that also holds a non-finite splat.
C40_Witness ==
    /\ bgPc = "built"
    /\ Len(bgFast) >= 2
    /\ bgBucketSize > 1
    /\ \E k \in DOMAIN bgSplats : ~bgSplats[k].finite
    /\ \E i \in Axes :
          /\ bgGrid.lower[i] < 0
          /\ bgGrid.lower[i]
                < FiniteBbox(bgSplats, Len(bgSplats)).bboxMin[i] \div bgSpacing

(***************************************************************************)
(* Specifications, one per subsystem.                                      *)
(***************************************************************************)
BucketStart ==
    BucketInit /\ BlobIdle /\ RangeIdle /\ WorkersIdle /\ CodeIdle /\ TreeIdle /\ SplatRangeIdle /\ StreamIdle /\ SequenceIdle /\ ReaderIdle /\ MicroIdle /\ FileIterIdle /\ BoundingIdle

SpecBucket == BucketStart /\ [][BucketNext]_vars

BlobStart ==
    BlobInit /\ BucketIdle /\ RangeIdle /\ WorkersIdle /\ CodeIdle /\ TreeIdle /\ SplatRangeIdle /\ StreamIdle /\ SequenceIdle /\ ReaderIdle /\ MicroIdle /\ FileIterIdle /\ BoundingIdle

SpecBlob == BlobStart /\ [][BlobNext]_vars

RangeStart ==
    RangeInit /\ BucketIdle /\ BlobIdle /\ WorkersIdle /\ CodeIdle /\ TreeIdle /\ SplatRangeIdle /\ StreamIdle /\ SequenceIdle /\ ReaderIdle /\ MicroIdle /\ FileIterIdle /\ BoundingIdle

SpecBlobsRange == RangeStart /\ [][RangeNext]_vars

WorkersStart ==
    WorkersInit /\ BucketIdle /\ BlobIdle /\ RangeIdle /\ CodeIdle /\ TreeIdle /\ SplatRangeIdle /\ StreamIdle /\ SequenceIdle /\ ReaderIdle /\ MicroIdle /\ FileIterIdle /\ BoundingIdle

SpecWorkers == WorkersStart /\ [][WorkersNext]_vars

SpecWorkersFair == WorkersStart /\ [][WorkersNext]_vars /\ WorkersFairness

CodeStart ==
    CodeInit /\ BucketIdle /\ BlobIdle /\ RangeIdle /\ WorkersIdle /\ TreeIdle /\ SplatRangeIdle /\ StreamIdle /\ SequenceIdle /\ ReaderIdle /\ MicroIdle /\ FileIterIdle /\ BoundingIdle

SpecMakeCode == CodeStart /\ [][CodeNext]_vars

TreeStart ==
    TreeInit /\ BucketIdle /\ BlobIdle /\ RangeIdle /\ WorkersIdle /\ CodeIdle /\ SplatRangeIdle /\ StreamIdle /\ SequenceIdle /\ ReaderIdle /\ MicroIdle /\ FileIterIdle /\ BoundingIdle

SpecSplatTree == TreeStart /\ [][TreeNext]_vars

SplatRangeStart ==
    SplatRangeInit /\ BucketIdle /\ BlobIdle /\ RangeIdle /\ WorkersIdle /\ CodeIdle /\ TreeIdle /\ StreamIdle /\ SequenceIdle /\ ReaderIdle /\ MicroIdle /\ FileIterIdle /\ BoundingIdle

SpecSplatRange == SplatRangeStart /\ [][SplatRangeNext]_vars

StreamStart ==
    StreamInit /\ BucketIdle /\ BlobIdle /\ RangeIdle /\ WorkersIdle /\ CodeIdle /\ TreeIdle /\ SplatRangeIdle /\ SequenceIdle /\ ReaderIdle /\ MicroIdle /\ FileIterIdle /\ BoundingIdle

SpecBlobStream == StreamStart /\ [][StreamNext]_vars

SequenceStart ==
    SequenceInit /\ BucketIdle /\ BlobIdle /\ RangeIdle /\ WorkersIdle /\ CodeIdle /\ TreeIdle /\ SplatRangeIdle /\ StreamIdle /\ ReaderIdle /\ MicroIdle /\ FileIterIdle /\ BoundingIdle

SpecSequenceStream == SequenceStart /\ [][SequenceNext]_vars

ReaderStart ==
    ReaderInit /\ BucketIdle /\ BlobIdle /\ RangeIdle /\ WorkersIdle /\ CodeIdle /\ TreeIdle /\ SplatRangeIdle /\ StreamIdle /\ SequenceIdle /\ MicroIdle /\ FileIterIdle /\ BoundingIdle

SpecReader == ReaderStart /\ [][ReaderNext]_vars

MicroStart ==
    MicroInit /\ BucketIdle /\ BlobIdle /\ RangeIdle /\ WorkersIdle /\ CodeIdle /\ TreeIdle /\ SplatRangeIdle /\ StreamIdle /\ SequenceIdle /\ ReaderIdle /\ FileIterIdle /\ BoundingIdle

SpecMicroSize == MicroStart /\ [][MicroNext]_vars

FileIterStart ==
    FileIterInit /\ BucketIdle /\ BlobIdle /\ RangeIdle /\ WorkersIdle /\ CodeIdle /\ TreeIdle /\ SplatRangeIdle /\ StreamIdle /\ SequenceIdle /\ ReaderIdle /\ MicroIdle /\ BoundingIdle

SpecFileRanges == FileIterStart /\ [][FileIterNext]_vars

BoundingStart ==
    BoundingInit /\ BucketIdle /\ BlobIdle /\ RangeIdle /\ WorkersIdle /\ CodeIdle /\ TreeIdle /\ SplatRangeIdle /\ StreamIdle /\ SequenceIdle /\ ReaderIdle /\ MicroIdle /\ FileIterIdle

SpecBoundingGrid == BoundingStart /\ [][BoundingNext]_vars

=============================================================================
